---- MODULE Spec2Model ----
(***************************************************************************)
(* A model of the STARK prover core: the Fiat-Shamir Channel, the field    *)
(* and polynomial arithmetic the FRI engine uses, the Merkle commitment,   *)
(* and the FRI commit / decommit / verify procedures.                      *)
(*                                                                         *)
(* Bytes are naturals 0..255, byte strings are sequences of bytes, and a   *)
(* Rust String is the sequence of its code points.  SHA-256 is stood for   *)
(* by a rolling digest of DigestBytes bytes (Mix): deterministic, of fixed *)
(* width, rendered in hex exactly as the code renders it.                  *)
(***************************************************************************)
EXTENDS Integers, Sequences, FiniteSets, TLC

\* ------------------------------------------------------------- bounds

\* Width of a digest in bytes (SHA-256 has 32; the model keeps 1).
DigestBytes == 1
\* How many calls a caller makes on a Channel.
MaxOps == 3
\* Arguments of receive_random_int: min in 0..MaxMin, max in min..min+MaxSpan.
MaxMin == 1
MaxSpan == 1
\* The largest number of queries of decommit_fri and verify_fri.
MaxQueries == 2

\* The field modulus of the repository's tests and of the end-to-end case.
Modulus == 7

\* ------------------------------------------------------- byte strings

Front(s) == SubSeq(s, 1, Len(s) - 1)

\* A sequence given by a rule, with its elements computed once (a Vec).
Vec(f) == SubSeq(f, 1, Len(f))

RECURSIVE BeBytes(_, _)
\* n.to_be_bytes() at a width of w bytes.
BeBytes(n, w) ==
    IF w = 0 THEN <<>> ELSE Append(BeBytes(n \div 256, w - 1), n % 256)

\* usize::to_be_bytes / u64::to_be_bytes: eight bytes, big-endian.
ToBeBytes(n) == BeBytes(n, 8)

RECURSIVE DecodeBe(_)
\* The big-endian reading of a byte string (the inverse of to_be_bytes).
DecodeBe(bytes) ==
    IF bytes = <<>> THEN 0
    ELSE DecodeBe(Front(bytes)) * 256 + bytes[Len(bytes)]

\* The code point of the lowercase hex digit d.
HexChar(d) == IF d < 10 THEN 48 + d ELSE 87 + d

\* hex::encode: two lowercase hex characters per byte.
HexEncode(bytes) ==
    Vec([i \in 1..(2 * Len(bytes)) |->
            LET b == bytes[(i + 1) \div 2]
            IN  IF i % 2 = 1 THEN HexChar(b \div 16) ELSE HexChar(b % 16)])

\* The value of one character as a base-16 digit (0-9, a-z, A-Z as ruint reads them).
HexDigit(c) ==
    IF c >= 48 /\ c <= 57 THEN c - 48
    ELSE IF c >= 97 /\ c <= 122 THEN c - 87
    ELSE c - 55

RECURSIVE ParseHex(_)
\* U256::from_str_radix(s, 16): the empty string reads as zero.
ParseHex(s) ==
    IF s = <<>> THEN 0
    ELSE ParseHex(Front(s)) * 16 + HexDigit(s[Len(s)])

\* String::from_utf8_lossy on a byte string: an ASCII byte is its own
\* character; a byte outside ASCII is read as U+FFFD (multi-byte
\* sequences are not decoded).
FromUtf8Lossy(bytes) ==
    Vec([i \in 1..Len(bytes) |-> IF bytes[i] < 128 THEN bytes[i] ELSE 65533])

\* --------------------------------------------------------------- hash

DigestSpace == 256 ^ DigestBytes

RECURSIVE Mix(_)
\* The digest of a sequence of bytes or characters, as a number.
Mix(s) ==
    IF s = <<>> THEN 5 % DigestSpace
    ELSE (Mix(Front(s)) * 33 + s[Len(s)] + 1) % DigestSpace

\* sha256::digest(String) -> String: the digest in lowercase hex.
Sha256Digest(str) == HexEncode(BeBytes(Mix(str), DigestBytes))

\* Sha256::hash(&[u8]) -> digest bytes.
Sha256Hash(bytes) == BeBytes(Mix(bytes), DigestBytes)

\* ------------------------------------------------------------ channel

\* Channel::new()
ChannelNew == [proof |-> <<>>, compressed_proof |-> <<>>, state |-> <<>>]

\* send as it would be if it kept the message out of compressed_proof.
ChannelSend_ProofOnly(ch, message) ==
    [proof            |-> Append(ch.proof, message),
     compressed_proof |-> ch.compressed_proof,
     state            |-> Sha256Digest(ch.state \o HexEncode(message))]

\* Channel::send(message)
ChannelSend(ch, message) ==
    [proof            |-> Append(ch.proof, message),
     compressed_proof |-> Append(ch.compressed_proof, message),
     state            |-> Sha256Digest(ch.state \o HexEncode(message))]

\* receive_random_int as it would be if it recorded whatever the flag says.
ReceiveRandomInt_AlwaysRecords(ch, min, max, show_in_proof) ==
    LET range == (max - min) + 1
        num   == (ParseHex(ch.state) + min) % range
    IN  [ch  |-> [proof            |-> Append(ch.proof, ToBeBytes(num)),
                  compressed_proof |-> ch.compressed_proof,
                  state            |-> Sha256Digest(ch.state)],
         ret |-> num]

\* Channel::receive_random_int(min, max, show_in_proof): the channel after
\* the call and the value returned.
ReceiveRandomInt(ch, min, max, show_in_proof) ==
    LET range == (max - min) + 1
        num   == (ParseHex(ch.state) + min) % range
    IN  [ch  |-> [proof            |-> IF show_in_proof
                                       THEN Append(ch.proof, ToBeBytes(num))
                                       ELSE ch.proof,
                  compressed_proof |-> ch.compressed_proof,
                  state            |-> Sha256Digest(ch.state)],
         ret |-> num]

\* receive_random_field_element as it would be if it also recorded the
\* drawn value in compressed_proof.
ReceiveRandomFieldElement_RecordsCompressed(ch) ==
    LET r == ReceiveRandomInt(ch, 0, Modulus - 1, FALSE)
    IN  [ch  |-> [r.ch EXCEPT !.proof = Append(@, ToBeBytes(r.ret)),
                              !.compressed_proof = Append(@, ToBeBytes(r.ret))],
         ret |-> r.ret % Modulus]

\* receive_random_field_element as it would be if it drew from 0..MODULUS
\* instead of 0..MODULUS - 1.
ReceiveRandomFieldElement_InclusiveModulus(ch) ==
    LET r == ReceiveRandomInt(ch, 0, Modulus, FALSE)
    IN  [ch  |-> [r.ch EXCEPT !.proof = Append(@, ToBeBytes(r.ret))],
         ret |-> r.ret % Modulus]

\* Channel::receive_random_field_element(): the channel after the call and
\* the value of the field element returned.
ReceiveRandomFieldElement(ch) ==
    LET r == ReceiveRandomInt(ch, 0, Modulus - 1, FALSE)
    IN  [ch  |-> [r.ch EXCEPT !.proof = Append(@, ToBeBytes(r.ret))],
         ret |-> r.ret % Modulus]

RECURSIVE SumLen(_)
SumLen(log) == IF log = <<>> THEN 0 ELSE SumLen(Front(log)) + Len(log[Len(log)])

\* Channel::proof_size / Channel::compressed_proof_size
ProofSize(ch) == SumLen(ch.proof)
CompressedProofSize(ch) == SumLen(ch.compressed_proof)

\* -------------------------------------------------------------- field

\* FieldElement::new(value)
FieldNew(value) == value % Modulus

\* Add for FieldElement
FieldAdd(a, b) == FieldNew(a + b)

\* Sub for FieldElement
FieldSub(a, b) == FieldNew((Modulus + a - b) % Modulus)

\* Mul for FieldElement (the product is taken in 128 bits)
FieldMul(a, b) == FieldNew((a * b) % Modulus)

RECURSIVE PowLoop(_, _, _)
\* The loop of FieldElement::pow: square and multiply.
PowLoop(result, base, e) ==
    IF e = 0 THEN result
    ELSE PowLoop(IF e % 2 = 1 THEN (result * base) % Modulus ELSE result,
                 (base * base) % Modulus,
                 e \div 2)

\* FieldElement::pow(exp)
FieldPow(a, exp) == PowLoop(1, a, exp)

\* Neg for FieldElement: new(MODULUS - value)
FieldNeg(a) == FieldNew(Modulus - a)

\* FieldElement::inverse panics only through its assert, MODULUS > 2; the
\* argument is not examined.
InversePanics(a) == ~(Modulus > 2)

\* FieldElement::inverse as it would be with the exponent p - 1.
FieldInverse_ExponentOffByOne(a) == FieldPow(a, Modulus - 1)

\* FieldElement::inverse: a^(p-2)
FieldInverse(a) == FieldPow(a, Modulus - 2)

\* Div for FieldElement: self * rhs.inverse()
FieldDiv(a, b) == FieldMul(a, FieldInverse(b))

\* FieldElement::to_bytes
FieldToBytes(a) == ToBeBytes(a)

RECURSIVE FieldFromBytes(_)
\* FieldElement::from_bytes: the big-endian reading, reduced into the field.
FieldFromBytes(bytes) ==
    IF bytes = <<>> THEN 0
    ELSE (FieldFromBytes(Front(bytes)) * 256 + bytes[Len(bytes)]) % Modulus

\* --------------------------------------------------------- polynomial

RECURSIVE Trim(_)
\* Drop the trailing zero coefficients.
Trim(coeffs) ==
    IF coeffs = <<>> THEN <<>>
    ELSE IF coeffs[Len(coeffs)] = 0 THEN Trim(Front(coeffs))
    ELSE coeffs

\* Polynomial::new(coeffs)
PolynomialNew(coeffs) ==
    [coefficients |-> Trim(coeffs), degree |-> Len(Trim(coeffs)) - 1]

\* Polynomial::zero()
PolynomialZero == [coefficients |-> <<>>, degree |-> -1]

\* Polynomial::is_zero: reads the degree field.
IsZero(p) == p.degree = -1

RECURSIVE Horner(_, _, _)
Horner(coeffs, x, n) ==
    IF n = 0 THEN 0
    ELSE FieldAdd(FieldMul(Horner(coeffs, x, n - 1), x),
                  coeffs[Len(coeffs) - n + 1])

\* Polynomial::evaluate(x): Horner's method from the highest coefficient down.
Evaluate(p, x) == Horner(p.coefficients, x, Len(p.coefficients))

\* Polynomial::add_assign(&rhs): returns at once when rhs.is_zero(),
\* otherwise adds coefficient-wise and re-trims (update_degree).
PolyAddAssign(self, rhs) ==
    IF IsZero(rhs) THEN self
    ELSE LET n   == IF Len(self.coefficients) >= Len(rhs.coefficients)
                    THEN Len(self.coefficients) ELSE Len(rhs.coefficients)
             sum == Vec([i \in 1..n |->
                        LET a == IF i <= Len(self.coefficients)
                                 THEN self.coefficients[i] ELSE 0
                        IN  IF i <= Len(rhs.coefficients)
                            THEN FieldAdd(a, rhs.coefficients[i]) ELSE a])
         IN  [coefficients |-> Trim(sum), degree |-> Len(Trim(sum)) - 1]

\* Mul<FieldElement> for Polynomial: scales every stored coefficient and
\* leaves the degree field as it was.
PolyMulScalar(p, scalar) ==
    [coefficients |-> Vec([i \in 1..Len(p.coefficients) |->
                              FieldMul(p.coefficients[i], scalar)]),
     degree |-> p.degree]

\* Polynomial::update_degree applied to a coefficient vector.
UpdateDegree(coeffs) ==
    [coefficients |-> Trim(coeffs), degree |-> Len(Trim(coeffs)) - 1]

\* Polynomial::sub_assign(&rhs): returns at once when rhs.is_zero(),
\* otherwise subtracts coefficient-wise and re-trims.
PolySubAssign(self, rhs) ==
    IF IsZero(rhs) THEN self
    ELSE LET n == IF Len(self.coefficients) >= Len(rhs.coefficients)
                  THEN Len(self.coefficients) ELSE Len(rhs.coefficients)
         IN  UpdateDegree(Vec([i \in 1..n |->
                 LET a == IF i <= Len(self.coefficients)
                          THEN self.coefficients[i] ELSE 0
                 IN  IF i <= Len(rhs.coefficients)
                     THEN FieldSub(a, rhs.coefficients[i]) ELSE a]))

RECURSIVE ProductCoeff(_, _, _, _)
\* product[k] of mul_assign (0-based k): the sum of a[i] * b[k - i] over
\* the first n coefficients a[0..n-1].
ProductCoeff(a, b, k, n) ==
    IF n = 0 THEN 0
    ELSE LET i == n - 1
             j == k - i
         IN  IF j >= 0 /\ j < Len(b)
             THEN FieldAdd(ProductCoeff(a, b, k, n - 1), FieldMul(a[i + 1], b[j + 1]))
             ELSE ProductCoeff(a, b, k, n - 1)

\* Polynomial::mul_assign(&rhs)
PolyMulAssign(self, rhs) ==
    IF IsZero(self) THEN self
    ELSE IF IsZero(rhs) THEN PolynomialZero
    ELSE LET a == self.coefficients
             b == rhs.coefficients
         IN  UpdateDegree(Vec([k \in 1..(Len(a) + Len(b) - 1) |->
                                  ProductCoeff(a, b, k - 1, Len(a))]))

RECURSIVE DivRemLoop(_, _, _)
\* The loop of div_rem on the remainder rem and the quotient vector.  With
\* a divisor whose stored leading coefficient is zero and a remainder
\* whose leading coefficient is not, no iteration changes rem: the loop
\* does not end.
DivRemLoop(rem, quotient, rhs) ==
    LET rem_deg == Len(rem) - 1
        den_deg == rhs.degree
    IN  IF ~(rem_deg >= den_deg /\ rem_deg # -1)
        THEN [panicked |-> FALSE, hangs |-> FALSE,
              quotient |-> PolynomialNew(quotient), remainder |-> PolynomialNew(rem)]
        ELSE LET den_lead == rhs.coefficients[rhs.degree + 1]
                 lead_rem == rem[rem_deg + 1]
                 ratio    == FieldMul(lead_rem, FieldInverse(den_lead))
                 shift    == rem_deg - den_deg
                 q2 == [quotient EXCEPT ![shift + 1] = FieldAdd(@, ratio)]
                 r2 == Vec([i \in 1..Len(rem) |->
                              IF i - 1 >= shift /\ i - 1 - shift <= den_deg
                              THEN FieldSub(rem[i],
                                       FieldMul(ratio, rhs.coefficients[i - shift]))
                              ELSE rem[i]])
             IN  IF Trim(r2) = rem
                 THEN [panicked |-> FALSE, hangs |-> TRUE,
                       quotient |-> PolynomialZero, remainder |-> PolynomialZero]
                 ELSE DivRemLoop(Trim(r2), q2, rhs)

\* div_rem with the short-dividend return dropping the dividend: the
\* remainder is zero whenever the dividend's degree is below the divisor's.
DivRem_ShortDividendDropped(self, rhs) ==
    IF IsZero(rhs)
    THEN [panicked |-> TRUE, hangs |-> FALSE,
          quotient |-> PolynomialZero, remainder |-> PolynomialZero]
    ELSE IF IsZero(self) \/ self.degree < rhs.degree
    THEN [panicked |-> FALSE, hangs |-> FALSE,
          quotient |-> PolynomialZero, remainder |-> PolynomialZero]
    ELSE DivRemLoop(self.coefficients,
                    Vec([i \in 1..(self.degree - rhs.degree + 1) |-> 0]), rhs)

\* Polynomial::div_rem(&rhs): (quotient, remainder), a panic on a divisor
\* with is_zero(), or a loop that does not end.
DivRem(self, rhs) ==
    IF IsZero(rhs)
    THEN [panicked |-> TRUE, hangs |-> FALSE,
          quotient |-> PolynomialZero, remainder |-> PolynomialZero]
    ELSE IF IsZero(self) \/ self.degree < rhs.degree
    THEN [panicked |-> FALSE, hangs |-> FALSE,
          quotient |-> PolynomialZero, remainder |-> self]
    ELSE DivRemLoop(self.coefficients,
                    Vec([i \in 1..(self.degree - rhs.degree + 1) |-> 0]), rhs)

\* Polynomial::scalar_mul(scalar): scales every stored coefficient in
\* place; update_degree is not called.
ScalarMul(p, scalar) ==
    [coefficients |-> Vec([i \in 1..Len(p.coefficients) |->
                              FieldMul(p.coefficients[i], scalar)]),
     degree |-> p.degree]

\* Polynomial::scalar_div(scalar), for scalar != 0 (it panics on zero):
\* scales by the inverse in place.
ScalarDiv(p, scalar) == ScalarMul(p, FieldInverse(scalar))

\* Mul<Polynomial> for FieldElement: scalar * poly.
ScalarTimesPoly(scalar, p) ==
    [coefficients |-> Vec([i \in 1..Len(p.coefficients) |->
                              FieldMul(p.coefficients[i], scalar)]),
     degree |-> p.degree]

\* Neg for Polynomial: negates every stored coefficient.
PolyNeg(p) ==
    [coefficients |-> Vec([i \in 1..Len(p.coefficients) |->
                              FieldNeg(p.coefficients[i])]),
     degree |-> p.degree]

RECURSIVE ComposeLoop(_, _, _, _)
\* The loop of compose over the coefficients n, n - 1, ..., 1 of self.
ComposeLoop(coeffs, other, n, result) ==
    IF n = 0 THEN result
    ELSE LET coeff == coeffs[n]
             next  == IF ~IsZero(result)
                      THEN PolyAddAssign(PolyMulAssign(result, other),
                                         PolynomialNew(<<coeff>>))
                      ELSE PolynomialNew(<<coeff>>)
         IN  ComposeLoop(coeffs, other, n - 1, next)

\* Polynomial::compose(&other): self(other) by Horner's scheme.
Compose(self, other) ==
    IF IsZero(self) THEN PolynomialZero
    ELSE ComposeLoop(self.coefficients, other, Len(self.coefficients), PolynomialZero)

\* PartialEq for Polynomial: equal degrees and equal coefficients up to
\* the degree.
PolyEq(p, q) ==
    /\ p.degree = q.degree
    /\ p.degree = -1 \/ \A i \in 1..(p.degree + 1) : p.coefficients[i] = q.coefficients[i]

\* ------------------------------------------------------ interpolation

RECURSIVE RootsLoop(_, _, _)
\* The loop of gen_polynomial_from_roots: p = p * (x - root) per root.
RootsLoop(roots, n, p) ==
    IF n > Len(roots) THEN p
    ELSE RootsLoop(roots, n + 1,
                   PolyMulAssign(p, PolynomialNew(<<FieldNeg(roots[n]), 1>>)))

\* gen_polynomial_from_roots(roots): the zero polynomial for no roots,
\* otherwise the product of the (x - root).
GenPolynomialFromRoots(roots) ==
    IF roots = <<>> THEN PolynomialZero
    ELSE RootsLoop(roots, 1, PolynomialNew(<<1>>))

RECURSIVE Denom(_, _, _)
\* denom_i: the product of xs[i] - xs[j] over j # i, for j = 1..n.
Denom(xs, i, n) ==
    IF n = 0 THEN 1
    ELSE IF n = i THEN Denom(xs, i, n - 1)
    ELSE FieldMul(Denom(xs, i, n - 1), FieldSub(xs[i], xs[n]))

\* A basis polynomial left unscaled: Z / (x - x_i) without the division
\* by denom_i.
LagrangeBasis_Unscaled(xs, Z, i) ==
    LET d == DivRem(Z, GenPolynomialFromRoots(<<xs[i]>>))
    IN  [panicked |-> d.panicked \/ d.hangs \/ ~IsZero(d.remainder),
         li |-> d.quotient]

\* One basis polynomial: Z / (x - x_i), scaled by the inverse of denom_i.
\* It panics if the division leaves a remainder.
LagrangeBasis(xs, Z, i) ==
    LET denom_inv == FieldInverse(Denom(xs, i, Len(xs)))
        d == DivRem(Z, GenPolynomialFromRoots(<<xs[i]>>))
    IN  [panicked |-> d.panicked \/ d.hangs \/ ~IsZero(d.remainder),
         li |-> ScalarMul(d.quotient, denom_inv)]

\* gen_lagrange_polynomials(xs): the basis polynomials, in order.
GenLagrangePolynomials(xs) ==
    IF xs = <<>> THEN <<>>
    ELSE LET Z == GenPolynomialFromRoots(xs)
         IN  Vec([i \in 1..Len(xs) |-> LagrangeBasis(xs, Z, i)])

\* gen_lagrange_polynomials_parallel(roots): the same basis, each element
\* computed by its own task and collected in index order.
GenLagrangePolynomialsParallel(roots) ==
    IF roots = <<>> THEN <<>>
    ELSE LET Z == GenPolynomialFromRoots(roots)
         IN  Vec([i \in 1..Len(roots) |-> LagrangeBasis(roots, Z, i)])

RECURSIVE InterpolateLoop(_, _, _, _)
\* The sum of ys[i] * l[i] over the first n points, accumulated in order.
InterpolateLoop(l, ys, n, acc) ==
    IF n > Len(l) THEN acc
    ELSE InterpolateLoop(l, ys, n + 1,
                         PolyAddAssign(acc, ScalarMul(l[n].li, ys[n])))

\* An interpolation whose sum leaves out the first point.
InterpolateLagrangePolynomials_SkipsFirstPoint(xs, ys) ==
    IF Len(xs) # Len(ys) THEN [panicked |-> TRUE, poly |-> PolynomialZero]
    ELSE IF xs = <<>> THEN [panicked |-> FALSE, poly |-> PolynomialZero]
    ELSE LET l == GenLagrangePolynomialsParallel(xs)
         IN  IF \E i \in 1..Len(l) : l[i].panicked
             THEN [panicked |-> TRUE, poly |-> PolynomialZero]
             ELSE [panicked |-> FALSE,
                   poly |-> InterpolateLoop(l, ys, 2, PolynomialZero)]

\* interpolate_lagrange_polynomials(xs, ys): it panics on lists of
\* different lengths (or when a basis polynomial does).
InterpolateLagrangePolynomials(xs, ys) ==
    IF Len(xs) # Len(ys) THEN [panicked |-> TRUE, poly |-> PolynomialZero]
    ELSE IF xs = <<>> THEN [panicked |-> FALSE, poly |-> PolynomialZero]
    ELSE LET l == GenLagrangePolynomialsParallel(xs)
         IN  IF \E i \in 1..Len(l) : l[i].panicked
             THEN [panicked |-> TRUE, poly |-> PolynomialZero]
             ELSE [panicked |-> FALSE,
                   poly |-> InterpolateLoop(l, ys, 1, PolynomialZero)]

\* ------------------------------------------- field: the machine word

\* The width in bits of the word that holds FieldElement.value (u64 in
\* the code), scaled down; the doubled width stands for u128.
WordBits == 4

\* The number of values of the word: 2^64 in the code.
Word == 2 ^ WordBits

\* An arithmetic result that does not fit the word: a debug build panics
\* on it (overflow), a release build keeps its low bits (value).
Wrap(x) == x % Word

\* Add for FieldElement<M>: FieldElement::new(self.value + rhs.value),
\* the sum taken in the word.
AddWord(M, a, b) ==
    [overflow |-> a + b >= Word, value |-> Wrap(a + b) % M]

\* Sub for FieldElement<M>: diff = MODULUS + self.value - rhs.value in the
\* word, then new(diff % MODULUS).
SubWord(M, a, b) ==
    [overflow |-> M + a >= Word, value |-> (Wrap(M + a - b) % M) % M]

\* Mul for FieldElement<M>: the product and its reduction are taken in
\* the doubled word (u128), then cast back and reduced by new().
MulWord(M, a, b) ==
    [overflow |-> a * b >= Word * Word,
     value |-> Wrap(((a * b) % (Word * Word)) % M) % M]

RECURSIVE PowWordLoop(_, _, _, _, _)
\* The loop of FieldElement::pow: result * base and base * base are taken
\* in the word, without widening.
PowWordLoop(M, result, base, e, overflow) ==
    IF e = 0 THEN [overflow |-> overflow, value |-> result]
    ELSE LET odd == e % 2 = 1
             r2  == IF odd THEN Wrap(result * base) % M ELSE result
             o2  == overflow \/ (odd /\ result * base >= Word)
                             \/ base * base >= Word
         IN  PowWordLoop(M, r2, Wrap(base * base) % M, e \div 2, o2)

\* FieldElement::pow(exp)
PowWord(M, a, exp) == PowWordLoop(M, 1, a, exp, FALSE)

RECURSIVE PowByMul(_, _, _)
\* The product of exp factors a, multiplied one at a time by Mul.
PowByMul(M, a, exp) ==
    IF exp = 0 THEN 1 ELSE MulWord(M, PowByMul(M, a, exp - 1), a).value

\* ------------------------------------------------------------- merkle

\* One level up: adjacent nodes are hashed in pairs, a last node without
\* a partner moves up as it is.
NextLevel(nodes) ==
    Vec([i \in 1..((Len(nodes) + 1) \div 2) |->
            IF 2 * i <= Len(nodes)
            THEN Sha256Hash(nodes[2 * i - 1] \o nodes[2 * i])
            ELSE nodes[2 * i - 1]])

RECURSIVE LevelsFrom(_)
\* All levels of the tree above (and including) a level of nodes.
LevelsFrom(nodes) ==
    IF Len(nodes) <= 1 THEN <<nodes>>
    ELSE <<nodes>> \o LevelsFrom(NextLevel(nodes))

\* A tree built over the hashes of the little-endian bytes of the elements.
MerkleTreeNew_LittleEndianLeaves(data) ==
    LevelsFrom(Vec([i \in 1..Len(data) |->
        Sha256Hash(Vec([k \in 1..8 |-> ToBeBytes(data[i])[9 - k]]))]))

\* MerkleTree::new(data): every element is hashed in its eight-byte
\* big-endian form and the tree is built over the leaf hashes.
MerkleTreeNew(data) ==
    LevelsFrom(Vec([i \in 1..Len(data) |-> Sha256Hash(ToBeBytes(data[i]))]))

\* MerkleTree::root(): the top digest in hex.
MerkleRoot(tree) == HexEncode(tree[Len(tree)][1])

RECURSIVE PathFrom(_, _, _)
\* The sibling digests of index (0-based) from level l up to the root.
PathFrom(tree, l, index) ==
    IF l >= Len(tree) THEN <<>>
    ELSE LET sib == IF index % 2 = 0 THEN index + 1 ELSE index - 1
         IN  (IF sib < Len(tree[l]) THEN tree[l][sib + 1] ELSE <<>>)
             \o PathFrom(tree, l + 1, index \div 2)

\* MerkleTree::get_authentication_path(index): the sibling digests from
\* the leaf to the root, as one byte string.
GetAuthenticationPath(tree, index) == PathFrom(tree, 1, index)

RECURSIVE WalkPath(_, _, _, _)
\* The digest reached from acc at position index of a level of size nodes,
\* consuming path; <<>> when the path does not fit the tree.
WalkPath(acc, path, index, size) ==
    IF size <= 1 THEN (IF path = <<>> THEN acc ELSE <<>>)
    ELSE LET sib == IF index % 2 = 0 THEN index + 1 ELSE index - 1
         IN  IF sib >= size
             THEN WalkPath(acc, path, index \div 2, (size + 1) \div 2)
             ELSE IF Len(path) < DigestBytes THEN <<>>
             ELSE LET d    == SubSeq(path, 1, DigestBytes)
                      rest == SubSeq(path, DigestBytes + 1, Len(path))
                      up   == IF index % 2 = 0
                              THEN Sha256Hash(acc \o d)
                              ELSE Sha256Hash(d \o acc)
                  IN  WalkPath(up, rest, index \div 2, (size + 1) \div 2)

\* MerkleTree::validate(root, path, index, value, tree_size): stateless;
\* hashes the value, walks the path and compares with the root.
Validate(root, path, index, value, tree_size) ==
    /\ index < tree_size
    /\ LET top == WalkPath(Sha256Hash(value), path, index, tree_size)
       IN  top # <<>> /\ HexEncode(top) = root

\* ---------------------------------------------------------------- fri

\* The layer size verify_fri_layers starts from.
InitialLayerSize == 8192

\* CosetFri::generate_coset_domain: offset * omega^i for i in 0..domain_size.
GenerateCosetDomain(offset, omega, domain_size) ==
    Vec([i \in 1..domain_size |-> FieldMul(offset, FieldPow(omega, i - 1))])

\* FieldElement::square(), which CosetFri::next_coset_domain calls: d * d.
FieldSquare(d) == FieldMul(d, d)

\* CosetFri::next_coset_domain(current_domain): the square of every element
\* of the domain.
NextCosetDomain(current_domain) ==
    Vec([i \in 1..Len(current_domain) |-> FieldSquare(current_domain[i])])

\* next_fri_domain as it would be if it squared every element of the
\* domain (what CosetFri::next_coset_domain does).
NextFriDomain_SquareAll(domain) ==
    Vec([i \in 1..Len(domain) |-> FieldPow(domain[i], 2)])

\* next_fri_domain: the squares of the first half of the domain.
NextFriDomain(domain) ==
    Vec([i \in 1..(Len(domain) \div 2) |-> FieldPow(domain[i], 2)])

\* A fold step with beta on the even-indexed half instead of the odd one.
NextFriPolynomial_BetaOnEven(poly, beta) ==
    LET c    == poly.coefficients
        odd  == Vec([i \in 1..(Len(c) \div 2) |-> c[2 * i]])
        even == Vec([i \in 1..((Len(c) + 1) \div 2) |-> c[2 * i - 1]])
    IN  PolyAddAssign(PolyMulScalar(PolynomialNew(even), beta), PolynomialNew(odd))

\* next_fri_polynomial: Polynomial::new(odd) * beta + Polynomial::new(even).
NextFriPolynomial(poly, beta) ==
    LET c    == poly.coefficients
        odd  == Vec([i \in 1..(Len(c) \div 2) |-> c[2 * i]])
        even == Vec([i \in 1..((Len(c) + 1) \div 2) |-> c[2 * i - 1]])
    IN  PolyAddAssign(PolyMulScalar(PolynomialNew(odd), beta), PolynomialNew(even))

\* next_fri_layer: the folded polynomial, domain and evaluations.
NextFriLayer(poly, domain, beta) ==
    LET folded_poly   == NextFriPolynomial(poly, beta)
        folded_domain == NextFriDomain(domain)
    IN  [poly   |-> folded_poly,
         domain |-> folded_domain,
         evals  |-> Vec([i \in 1..Len(folded_domain) |->
                            Evaluate(folded_poly, folded_domain[i])])]

RECURSIVE FriLoop(_, _, _, _, _, _)
\* The while loop of fri_commit and the send of the final constant.
\* MerkleTree::root() of a tree without leaves panics (unwrap of None).
FriLoop(poly, domain, ch, fri_layers, fri_merkles, betas) ==
    IF poly.degree >= 1
    THEN LET r    == ReceiveRandomFieldElement(ch)
             nxt  == NextFriLayer(poly, domain, r.ret)
             tree == MerkleTreeNew(nxt.evals)
         IN  IF nxt.evals = <<>>
             THEN [panicked |-> TRUE, ch |-> r.ch, fri_layers |-> fri_layers,
                   fri_merkles |-> fri_merkles, final_poly |-> poly,
                   betas |-> Append(betas, r.ret)]
             ELSE FriLoop(nxt.poly, nxt.domain,
                          ChannelSend(r.ch, MerkleRoot(tree)),
                          Append(fri_layers, nxt.evals),
                          Append(fri_merkles, tree),
                          Append(betas, r.ret))
    ELSE LET final_value == IF IsZero(poly) THEN 0 ELSE poly.coefficients[1]
         IN  [panicked |-> FALSE,
              ch |-> ChannelSend(ch, FieldToBytes(final_value)),
              fri_layers |-> fri_layers, fri_merkles |-> fri_merkles,
              final_poly |-> poly, betas |-> betas]

\* fri_commit without the send of the first layer's root before the loop.
FriCommit_FirstRootNotSent(poly, domain, ch) ==
    LET evals  == Vec([i \in 1..Len(domain) |-> Evaluate(poly, domain[i])])
        merkle == MerkleTreeNew(evals)
    IN  FriLoop(poly, domain, ch, <<evals>>, <<merkle>>, <<>>)

\* fri_commit(poly, domain, channel): the FRIProof, the channel after the
\* call, and the betas drawn on the way.
FriCommit(poly, domain, ch) ==
    LET evals  == Vec([i \in 1..Len(domain) |-> Evaluate(poly, domain[i])])
        merkle == MerkleTreeNew(evals)
    IN  FriLoop(poly, domain, ChannelSend(ch, MerkleRoot(merkle)),
                <<evals>>, <<merkle>>, <<>>)

RECURSIVE DecommitFriLayersFrom(_, _, _, _, _, _)
\* decommit_fri_layers from layer k on: the channel after it and the
\* positions in proof of the evaluations it sent.
DecommitFriLayersFrom(k, index, fri_layers, fri_merkles, ch, sent) ==
    IF k > Len(fri_layers) \/ k > Len(fri_merkles) THEN [ch |-> ch, sent |-> sent]
    ELSE LET layer_evals == fri_layers[k]
             length      == Len(layer_evals)
         IN  IF length = 1 THEN [ch |-> ch, sent |-> sent]
             ELSE LET idx         == index % length
                      sibling_idx == (idx + length \div 2) % length
                      c1 == ChannelSend(ch, FieldToBytes(layer_evals[idx + 1]))
                      c2 == ChannelSend(c1, GetAuthenticationPath(fri_merkles[k], idx))
                      c3 == ChannelSend(c2, FieldToBytes(layer_evals[sibling_idx + 1]))
                      c4 == ChannelSend(c3, GetAuthenticationPath(fri_merkles[k], sibling_idx))
                  IN  DecommitFriLayersFrom(k + 1, index, fri_layers, fri_merkles, c4,
                          sent \o <<Len(c1.proof), Len(c3.proof)>>)

\* decommit_fri_layers as it would be if it started at the second layer.
DecommitFriLayers_SkipsFirstLayer(index, fri_layers, fri_merkles, ch, sent) ==
    DecommitFriLayersFrom(2, index, fri_layers, fri_merkles, ch, sent)

\* decommit_fri_layers(index, fri_layers, fri_merkles, channel)
DecommitFriLayers(index, fri_layers, fri_merkles, ch, sent) ==
    DecommitFriLayersFrom(1, index, fri_layers, fri_merkles, ch, sent)

RECURSIVE DecommitFriFrom(_, _, _, _, _, _, _)
DecommitFriFrom(q, max_index, fri_layers, fri_merkles, ch, idxs, sent) ==
    IF q = 0 THEN [ch |-> ch, idxs |-> idxs, sent |-> sent]
    ELSE LET r == ReceiveRandomInt(ch, 0, max_index, TRUE)
             d == DecommitFriLayers(r.ret, fri_layers, fri_merkles, r.ch, sent)
         IN  DecommitFriFrom(q - 1, max_index, fri_layers, fri_merkles, d.ch,
                             Append(idxs, r.ret), d.sent)

\* decommit_fri(num_queries, max_index, fri_layers, fri_merkles, channel):
\* the channel after it, the indices drawn, and where the evaluations lie.
DecommitFri(num_queries, max_index, fri_layers, fri_merkles, ch) ==
    DecommitFriFrom(num_queries, max_index, fri_layers, fri_merkles, ch, <<>>, <<>>)

\* The last entry of the transcript: channel.proof.last().unwrap().
LastEntry(ch) == ch.proof[Len(ch.proof)]

\* The tree size verify_fri_layers passes to validate for the root at
\* layer_index (0-based): 8192 >> layer_index.
VerifierLayerSize(layer_index) == InitialLayerSize \div (2 ^ layer_index)

\* The index verify_fri_layers validates the value against: the query
\* index as drawn, in every layer.
VerifierIndex(index, layer_index) == index

\* The sibling index verify_fri_layers validates against.
VerifierSiblingIndex(index, layer_index) ==
    (index + (VerifierLayerSize(layer_index) \div 2)) % VerifierLayerSize(layer_index)

\* What verify_fri_layers reads for each layer root: the value and the
\* path at the index and at its sibling.  Each of the four reads is
\* channel.proof.last() and nothing is appended or removed in between.
LayerReads(fri_roots, ch) ==
    Vec([k \in 1..Len(fri_roots) |->
            [pi_x_bytes    |-> LastEntry(ch),
             pi_x_proof    |-> LastEntry(ch),
             pi_negx_bytes |-> LastEntry(ch),
             pi_negx_proof |-> LastEntry(ch)]])

RECURSIVE VerifyFriLayersFrom(_, _, _, _, _)
\* The loop of verify_fri_layers from the k-th root on.  Every read takes
\* channel.proof.last(); the fold relation is not checked.
VerifyFriLayersFrom(k, index, fri_roots, betas, ch) ==
    IF k > Len(fri_roots) THEN TRUE
    ELSE IF ch.proof = <<>> THEN FALSE
    ELSE LET layer_index   == k - 1
             root_str      == fri_roots[k]
             pi_x_bytes    == LastEntry(ch)
             pi_x_proof    == LastEntry(ch)
             layer_size    == InitialLayerSize \div (2 ^ layer_index)
             pi_negx_bytes == LastEntry(ch)
             pi_negx_proof == LastEntry(ch)
             sibling_idx   == (index + (layer_size \div 2)) % layer_size
         IN  IF ~Validate(root_str, pi_x_proof, index, pi_x_bytes, layer_size)
             THEN FALSE
             ELSE IF ~Validate(root_str, pi_negx_proof, sibling_idx,
                               pi_negx_bytes, layer_size)
             THEN FALSE
             ELSE VerifyFriLayersFrom(k + 1, index, fri_roots, betas, ch)

\* verify_fri_layers as it would be if it skipped the Merkle validation.
VerifyFriLayers_NoValidation(index, fri_roots, betas, ch) ==
    Len(fri_roots) = 0 \/ ch.proof # <<>>

\* verify_fri_layers(index, fri_roots, betas, channel, field)
VerifyFriLayers(index, fri_roots, betas, ch) ==
    VerifyFriLayersFrom(1, index, fri_roots, betas, ch)

RECURSIVE VerifyRoots(_, _, _, _)
\* The loop of verify_fri over the layers after the first: draw a beta,
\* then take the last entry of proof as the next root.
VerifyRoots(n, ch, fri_roots, betas) ==
    IF n <= 0 THEN [ch |-> ch, fri_roots |-> fri_roots, betas |-> betas]
    ELSE LET r == ReceiveRandomFieldElement(ch)
         IN  VerifyRoots(n - 1, r.ch,
                         Append(fri_roots, FromUtf8Lossy(LastEntry(r.ch))),
                         Append(betas, r.ret))

RECURSIVE VerifyQueries_IgnoresLayers(_, _, _, _, _, _)
\* The query loop of verify_fri as it would be if it dropped the verdict of
\* verify_fri_layers.
VerifyQueries_IgnoresLayers(q, max_index, fri_roots, betas, ch, idxs) ==
    IF q = 0 THEN [result |-> TRUE, ch |-> ch, idxs |-> idxs]
    ELSE LET r == ReceiveRandomInt(ch, 0, max_index, TRUE)
         IN  VerifyQueries_IgnoresLayers(q - 1, max_index, fri_roots, betas,
                                         r.ch, Append(idxs, r.ret))

RECURSIVE VerifyQueries(_, _, _, _, _, _)
\* The query loop of verify_fri: it returns false at the first query whose
\* layers do not verify.
VerifyQueries(q, max_index, fri_roots, betas, ch, idxs) ==
    IF q = 0 THEN [result |-> TRUE, ch |-> ch, idxs |-> idxs]
    ELSE LET r == ReceiveRandomInt(ch, 0, max_index, TRUE)
         IN  IF ~VerifyFriLayers(r.ret, fri_roots, betas, r.ch)
             THEN [result |-> FALSE, ch |-> r.ch, idxs |-> Append(idxs, r.ret)]
             ELSE VerifyQueries(q - 1, max_index, fri_roots, betas, r.ch,
                                Append(idxs, r.ret))

\* verify_fri(num_queries, max_index, expected_num_layers, channel, field):
\* the result, the channel after the call, and what it derived on the way.
VerifyFri(num_queries, max_index, expected_num_layers, ch) ==
    IF ch.proof = <<>>
    THEN [result |-> FALSE, ch |-> ch, fri_roots |-> <<>>, betas |-> <<>>,
          final_value |-> 0, idxs |-> <<>>]
    ELSE LET first_root_str == FromUtf8Lossy(ch.proof[1])
             v  == VerifyRoots(expected_num_layers - 1, ch, <<first_root_str>>, <<>>)
             final_value == FieldFromBytes(LastEntry(v.ch))
             qs == VerifyQueries(num_queries, max_index, v.fri_roots, v.betas,
                                 v.ch, <<>>)
         IN  [result |-> qs.result, ch |-> qs.ch, fri_roots |-> v.fri_roots,
              betas |-> v.betas, final_value |-> final_value, idxs |-> qs.idxs]

\* ------------------------------------------------------ state machine

VARIABLES
    channel,    \* the Channel
    phase,      \* "open", "committed", "decommitted", "verified", "panicked"
    ops,        \* how many calls the caller has made on the open channel
    last,       \* the last Channel call: its arguments, the channel before it, its result
    prover,     \* what fri_commit and decommit_fri were given and produced
    tampered,   \* whether a recorded evaluation was changed after decommit
    verifier,   \* what verify_fri was given and produced
    polynomial, \* the Polynomial a caller of the library holds
    calc        \* the last library call: its arguments and what it returned

vars == <<channel, phase, ops, last, prover, tampered, verifier, polynomial, calc>>

\* The messages a caller sends.
Messages == {<<>>, <<7>>, <<1, 200>>}

\* The coefficient lists the caller builds its polynomial from.
CoeffChoices ==
    {<<>>, <<5>>, <<3, 1>>, <<0, 1, 0, 1>>, <<1, 2, 3, 4>>, <<2, 6, 4, 3>>}

\* The evaluation domains the caller passes.
DomainChoices ==
    {GenerateCosetDomain(1, 3, 8), GenerateCosetDomain(3, 6, 4),
     GenerateCosetDomain(1, 6, 2)}

\* The max_index arguments of decommit_fri and verify_fri.
MaxIndexChoices == {3, 7}

\* Which byte of a recorded evaluation is changed: the first or the last.
TamperByteChoices == {1, 8}

NoCall ==
    [op |-> "none", message |-> <<>>, min |-> 0, max |-> 0,
     show_in_proof |-> FALSE, pre |-> ChannelNew, ret |-> 0]

NoProver ==
    [poly |-> PolynomialZero, domain |-> <<>>, pre |-> ChannelNew,
     fri_layers |-> <<>>, fri_merkles |-> <<>>, final_poly |-> PolynomialZero,
     betas |-> <<>>, committed |-> ChannelNew,
     num_queries |-> 0, max_index |-> 0, idxs |-> <<>>, sent |-> <<>>]

NoVerifier ==
    [num_queries |-> 0, max_index |-> 0, expected_num_layers |-> 0,
     pre |-> ChannelNew, result |-> FALSE, fri_roots |-> <<>>, betas |-> <<>>,
     final_value |-> 0, idxs |-> <<>>]

NoCalc ==
    [op |-> "none", self |-> PolynomialZero, rhs |-> PolynomialZero,
     scalar |-> 0, a |-> 0, b |-> 0, xs |-> <<>>, ys |-> <<>>,
     panicked |-> FALSE, hangs |-> FALSE,
     quotient |-> PolynomialZero, remainder |-> PolynomialZero,
     out |-> PolynomialZero, basis |-> <<>>, values |-> <<>>,
     data |-> <<>>, index |-> 0, root |-> <<>>, path |-> <<>>, value |-> <<>>,
     target |-> "none", sent_path |-> <<>>, sent_value |-> <<>>,
     accepted |-> FALSE,
     domain |-> <<>>, next_fri_domain |-> <<>>, next_coset_domain |-> <<>>,
     modulus |-> 0, exp |-> 0, overflow |-> FALSE, returned |-> 0,
     order |-> <<>>, slots |-> <<>>]

Init ==
    /\ polynomial = PolynomialZero
    /\ calc = NoCalc
    /\ channel = ChannelNew
    /\ phase = "open"
    /\ ops = 0
    /\ last = NoCall
    /\ prover = NoProver
    /\ tampered = FALSE
    /\ verifier = NoVerifier

\* A caller calls channel.send(message).
Send(message) ==
    /\ phase = "open"
    /\ ops < MaxOps
    /\ channel' = ChannelSend(channel, message)
    /\ last' = [NoCall EXCEPT !.op = "send", !.message = message, !.pre = channel]
    /\ ops' = ops + 1
    /\ UNCHANGED <<phase, prover, tampered, verifier, polynomial, calc>>

\* A caller calls channel.receive_random_field_element().
ReceiveFieldElement ==
    /\ phase = "open"
    /\ ops < MaxOps
    /\ LET r == ReceiveRandomFieldElement(channel)
       IN  /\ channel' = r.ch
           /\ last' = [NoCall EXCEPT !.op = "receive_random_field_element",
                                     !.pre = channel, !.ret = r.ret]
    /\ ops' = ops + 1
    /\ UNCHANGED <<phase, prover, tampered, verifier, polynomial, calc>>

\* A caller calls channel.receive_random_int(min, max, show_in_proof), min <= max.
ReceiveInt(min, max, show_in_proof) ==
    /\ phase = "open"
    /\ ops < MaxOps
    /\ min <= max
    /\ LET r == ReceiveRandomInt(channel, min, max, show_in_proof)
       IN  /\ channel' = r.ch
           /\ last' = [NoCall EXCEPT !.op = "receive_random_int", !.min = min,
                                     !.max = max, !.show_in_proof = show_in_proof,
                                     !.pre = channel, !.ret = r.ret]
    /\ ops' = ops + 1
    /\ UNCHANGED <<phase, prover, tampered, verifier, polynomial, calc>>

\* The caller sends one message on the fresh channel before the FRI run.
PreambleSend(message) ==
    /\ phase = "open"
    /\ ops = 0
    /\ channel' = ChannelSend(channel, message)
    /\ ops' = ops + 1
    /\ UNCHANGED <<phase, last, prover, tampered, verifier, polynomial, calc>>

\* The prover runs fri_commit(Polynomial::new(coeffs), domain, channel).
Commit(coeffs, domain) ==
    /\ phase = "open"
    /\ LET poly == PolynomialNew(coeffs)
           r    == FriCommit(poly, domain, channel)
       IN  /\ channel' = r.ch
           /\ phase' = IF r.panicked THEN "panicked" ELSE "committed"
           /\ prover' = [NoProver EXCEPT !.poly = poly, !.domain = domain,
                                         !.pre = channel,
                                         !.fri_layers = r.fri_layers,
                                         !.fri_merkles = r.fri_merkles,
                                         !.final_poly = r.final_poly,
                                         !.betas = r.betas,
                                         !.committed = r.ch]
    /\ UNCHANGED <<ops, last, tampered, verifier, polynomial, calc>>

\* The prover runs decommit_fri(num_queries, max_index, ...).
Decommit(num_queries, max_index) ==
    /\ phase = "committed"
    /\ LET r == DecommitFri(num_queries, max_index, prover.fri_layers,
                            prover.fri_merkles, channel)
       IN  /\ channel' = r.ch
           /\ prover' = [prover EXCEPT !.num_queries = num_queries,
                                       !.max_index = max_index,
                                       !.idxs = r.idxs, !.sent = r.sent]
    /\ phase' = "decommitted"
    /\ UNCHANGED <<ops, last, tampered, verifier, polynomial, calc>>

\* One byte of one evaluation recorded by decommit_fri_layers is changed.
Tamper(pos, b) ==
    /\ phase = "decommitted"
    /\ ~tampered
    /\ \E n \in 1..Len(prover.sent) : pos = prover.sent[n]
    /\ channel' = [channel EXCEPT !.proof[pos][b] = (@ + 1) % 256]
    /\ tampered' = TRUE
    /\ UNCHANGED <<phase, ops, last, prover, verifier, polynomial, calc>>

\* The verifier runs verify_fri(num_queries, max_index, expected_num_layers,
\* channel) on the channel that holds the transcript, with the max_index
\* the prover used.
Verify(num_queries, max_index, expected_num_layers) ==
    /\ phase = "decommitted"
    /\ expected_num_layers >= 0
    /\ max_index = prover.max_index
    /\ LET r == VerifyFri(num_queries, max_index, expected_num_layers, channel)
       IN  /\ channel' = r.ch
           /\ verifier' = [num_queries |-> num_queries, max_index |-> max_index,
                           expected_num_layers |-> expected_num_layers,
                           pre |-> channel, result |-> r.result,
                           fri_roots |-> r.fri_roots, betas |-> r.betas,
                           final_value |-> r.final_value, idxs |-> r.idxs]
    /\ phase' = "verified"
    /\ UNCHANGED <<ops, last, prover, tampered, polynomial, calc>>

\* The Channel driven by a caller.
Next ==
    \/ \E m \in Messages : Send(m)
    \/ ReceiveFieldElement
    \/ \E min \in 0..MaxMin, span \in 0..MaxSpan, show \in BOOLEAN :
          ReceiveInt(min, min + span, show)

Spec == Init /\ [][Next]_vars

\* The FRI run: commit, decommit, then verification of the transcript.
FriNext ==
    \/ \E m \in Messages : PreambleSend(m)
    \/ \E coeffs \in CoeffChoices, domain \in DomainChoices : Commit(coeffs, domain)
    \/ \E nq \in 0..MaxQueries, mi \in MaxIndexChoices : Decommit(nq, mi)
    \/ \E pos \in 1..Len(channel.proof), b \in TamperByteChoices : Tamper(pos, b)
    \/ \E nq \in 0..MaxQueries, mi \in MaxIndexChoices, d \in {-1, 0} :
          Verify(nq, mi, Len(prover.fri_layers) + d)

SpecFri == Init /\ [][FriNext]_vars

\* ------------------------------------- state machine: the library

\* Longest coefficient vector a caller lets its polynomial grow to.
MaxCoeffs == 4

\* The coefficient vectors a caller passes to Polynomial::new.
NewCoeffChoices ==
    {<<>>, <<0>>, <<5>>, <<0, 1>>, <<3, 1>>, <<1, 0, 0>>, <<2, 0, 4>>,
     <<1, 0, 0, 1>>, <<1, 2, 3, 4>>}

\* The polynomials a caller passes as the other operand.
OperandChoices ==
    {PolynomialNew(<<>>), PolynomialNew(<<3>>), PolynomialNew(<<6, 1>>),
     PolynomialNew(<<1, 0, 2>>)}

\* The scalars and challenges a caller passes.
ScalarChoices == {0, 1, 3, 6}

\* The point lists a caller passes to the interpolation functions.
PointChoices == {<<>>, <<4>>, <<2, 3>>, <<2, 3, 5>>, <<0, 1, 6>>, <<0, 1, 2, 3>>, <<3, 3>>}

\* What a library call leaves alone: the channel and the FRI run.
LibFrame == UNCHANGED <<channel, phase, last, prover, tampered, verifier>>

\* The caller's polynomial becomes result; the call is recorded.
LibStep(record, result) ==
    /\ phase = "open"
    /\ ops < MaxOps
    /\ polynomial' = result
    /\ calc' = record
    /\ ops' = ops + 1
    /\ LibFrame

\* poly = Polynomial::new(coeffs)
LibNew(coeffs) ==
    LibStep([NoCalc EXCEPT !.op = "new", !.self = polynomial], PolynomialNew(coeffs))

\* poly.add_assign(&rhs)
LibAddAssign(rhs) ==
    LibStep([NoCalc EXCEPT !.op = "add_assign", !.self = polynomial, !.rhs = rhs],
            PolyAddAssign(polynomial, rhs))

\* poly.sub_assign(&rhs)
LibSubAssign(rhs) ==
    LibStep([NoCalc EXCEPT !.op = "sub_assign", !.self = polynomial, !.rhs = rhs],
            PolySubAssign(polynomial, rhs))

\* poly.mul_assign(&rhs)
LibMulAssign(rhs) ==
    /\ Len(polynomial.coefficients) + Len(rhs.coefficients) - 1 <= MaxCoeffs
    /\ LibStep([NoCalc EXCEPT !.op = "mul_assign", !.self = polynomial, !.rhs = rhs],
               PolyMulAssign(polynomial, rhs))

\* poly.scalar_mul(scalar)
LibScalarMul(scalar) ==
    LibStep([NoCalc EXCEPT !.op = "scalar_mul", !.self = polynomial, !.scalar = scalar],
            ScalarMul(polynomial, scalar))

\* poly.scalar_div(scalar): a zero scalar panics and poly stays as it was.
LibScalarDiv(scalar) ==
    LibStep([NoCalc EXCEPT !.op = "scalar_div", !.self = polynomial, !.scalar = scalar,
                           !.panicked = (scalar = 0)],
            IF scalar = 0 THEN polynomial ELSE ScalarDiv(polynomial, scalar))

\* poly = poly * scalar
LibMulScalar(scalar) ==
    LibStep([NoCalc EXCEPT !.op = "mul_scalar", !.self = polynomial, !.scalar = scalar],
            PolyMulScalar(polynomial, scalar))

\* poly = scalar * poly
LibScalarTimesPoly(scalar) ==
    LibStep([NoCalc EXCEPT !.op = "scalar_times", !.self = polynomial, !.scalar = scalar],
            ScalarTimesPoly(scalar, polynomial))

\* poly = -poly
LibNeg ==
    LibStep([NoCalc EXCEPT !.op = "neg", !.self = polynomial], PolyNeg(polynomial))

\* (q, r) = poly.div_rem(&rhs); the caller goes on with q or with r.  On a
\* panic, or when the call does not return, poly stays as it was.
LibDivRem(rhs, keep_quotient) ==
    LET d == DivRem(polynomial, rhs)
    IN  LibStep([NoCalc EXCEPT !.op = "div_rem", !.self = polynomial, !.rhs = rhs,
                               !.panicked = d.panicked, !.hangs = d.hangs,
                               !.quotient = d.quotient, !.remainder = d.remainder],
                IF d.panicked \/ d.hangs THEN polynomial
                ELSE IF keep_quotient THEN d.quotient ELSE d.remainder)

\* poly = poly.compose(&other)
LibCompose(other) ==
    /\ polynomial.degree * other.degree + 1 <= MaxCoeffs
    /\ LibStep([NoCalc EXCEPT !.op = "compose", !.self = polynomial, !.rhs = other],
               Compose(polynomial, other))

\* poly = next_fri_polynomial(&poly, beta): one fold step.
LibFold(beta) ==
    LibStep([NoCalc EXCEPT !.op = "fold", !.self = polynomial, !.scalar = beta],
            NextFriPolynomial(polynomial, beta))

\* The field operations on a and b: a + b - b, a * b / b, a / b, the
\* inverse of a and its product with a.  The call reads nothing the
\* caller holds, so it is made first.
LibField(a, b) ==
    /\ ops = 0
    /\ LibStep([NoCalc EXCEPT !.op = "field", !.a = a, !.b = b,
                !.panicked = InversePanics(a) \/ InversePanics(b),
                !.values = <<FieldSub(FieldAdd(a, b), b),
                             FieldDiv(FieldMul(a, b), b),
                             FieldDiv(a, b),
                             FieldInverse(a),
                             FieldMul(FieldInverse(a), a)>>],
               polynomial)

\* gen_lagrange_polynomials(xs); like the field operations, made first.
LibLagrange(xs) ==
    /\ ops = 0
    /\ LibStep([NoCalc EXCEPT !.op = "gen_lagrange_polynomials", !.xs = xs,
                   !.basis = GenLagrangePolynomials(xs),
                   !.panicked = \E i \in 1..Len(xs) :
                                    GenLagrangePolynomials(xs)[i].panicked],
               polynomial)

\* interpolate_lagrange_polynomials(xs, ys) with ys the values of poly on xs.
LibInterpolate(xs) ==
    LET ys == Vec([i \in 1..Len(xs) |-> Evaluate(polynomial, xs[i])])
        r  == InterpolateLagrangePolynomials(xs, ys)
    IN  LibStep([NoCalc EXCEPT !.op = "interpolate", !.self = polynomial, !.xs = xs,
                               !.ys = ys, !.panicked = r.panicked, !.out = r.poly],
                polynomial)

\* The element lists a caller commits to, and the bytes it may put in
\* place of a byte of an opening.
LeafChoices == {<<3>>, <<1, 2>>, <<4, 0, 6>>, <<5, 5, 2, 1>>}
OpeningByteChoices == {0, 1, 8, 255}

\* tree = MerkleTree::new(data); the opening of index is
\* (data[index].to_bytes(), tree.get_authentication_path(index)); one byte
\* of the target ("path" or "value", or nothing for "none") is replaced by
\* another byte and MerkleTree::validate is called on tree.root() and the
\* opening.  Like the field operations, made first.
LibMerkle(data, index, target, pos, byte) ==
    /\ ops = 0
    /\ index < Len(data)
    /\ LET tree       == MerkleTreeNew(data)
           path       == GetAuthenticationPath(tree, index)
           value      == FieldToBytes(data[index + 1])
           sent_path  == IF target = "path"
                         THEN [path EXCEPT ![pos] = byte] ELSE path
           sent_value == IF target = "value"
                         THEN [value EXCEPT ![pos] = byte] ELSE value
       IN  /\ target = "none"  => pos = 1 /\ byte = 0
           /\ target = "path"  => pos <= Len(path) /\ path[pos] # byte
           /\ target = "value" => pos <= Len(value) /\ value[pos] # byte
           /\ LibStep([NoCalc EXCEPT !.op = "validate", !.data = data,
                          !.index = index, !.root = MerkleRoot(tree),
                          !.path = path, !.value = value, !.target = target,
                          !.sent_path = sent_path, !.sent_value = sent_value,
                          !.accepted = Validate(MerkleRoot(tree), sent_path, index,
                                                sent_value, Len(data))],
                      polynomial)

\* next_fri_domain(&domain) and CosetFri::next_coset_domain(&domain) on the
\* same domain.  Like the field operations, made first.
LibNextDomain(domain) ==
    /\ ops = 0
    /\ LibStep([NoCalc EXCEPT !.op = "next_domain", !.domain = domain,
                   !.next_fri_domain = NextFriDomain(domain),
                   !.next_coset_domain = NextCosetDomain(domain)],
               polynomial)

\* A caller of the field, polynomial and interpolation functions.
LibNext ==
    \/ \E coeffs \in NewCoeffChoices : LibNew(coeffs)
    \/ \E rhs \in OperandChoices : LibAddAssign(rhs)
    \/ \E rhs \in OperandChoices : LibSubAssign(rhs)
    \/ \E rhs \in OperandChoices : LibMulAssign(rhs)
    \/ \E scalar \in ScalarChoices : LibScalarMul(scalar)
    \/ \E scalar \in ScalarChoices : LibScalarDiv(scalar)
    \/ \E scalar \in ScalarChoices : LibMulScalar(scalar)
    \/ \E scalar \in ScalarChoices : LibScalarTimesPoly(scalar)
    \/ LibNeg
    \/ \E rhs \in OperandChoices, keep_quotient \in BOOLEAN : LibDivRem(rhs, keep_quotient)
    \/ \E other \in OperandChoices : LibCompose(other)
    \/ \E beta \in ScalarChoices : LibFold(beta)
    \/ \E a \in 0..(Modulus - 1), b \in 0..(Modulus - 1) : LibField(a, b)
    \/ \E xs \in PointChoices : LibLagrange(xs)
    \/ \E xs \in PointChoices : LibInterpolate(xs)
    \/ \E data \in LeafChoices, index \in 0..3, target \in {"none", "path", "value"},
          pos \in 1..(8 + 2 * DigestBytes), byte \in OpeningByteChoices :
              LibMerkle(data, index, target, pos, byte)
    \/ \E domain \in DomainChoices \cup {<<>>, <<2, 5, 3>>} : LibNextDomain(domain)

SpecLib == Init /\ [][LibNext]_vars

\* ------------------------------------------ the field over the word

\* The moduli a caller instantiates FieldElement with, small ones and
\* ones next to half the word and to the whole word.
ModulusChoices ==
    {2, 3, 4, 7, Word \div 2 - 1, Word \div 2, Word \div 2 + 1, Word - 3, Word - 1}

\* The exponents passed to pow.
MaxExp == 3

\* A caller holds two elements a, b of the field of a modulus that fits
\* the word, and an exponent.
InitWord ==
    /\ polynomial = PolynomialZero
    /\ calc \in {[NoCalc EXCEPT !.op = "operands", !.modulus = M,
                                 !.a = a, !.b = b, !.exp = e] :
                     M \in ModulusChoices, a \in 0..(Word - 2),
                     b \in 0..(Word - 2), e \in 0..MaxExp}
    /\ calc.a < calc.modulus
    /\ calc.b < calc.modulus
    /\ channel = ChannelNew
    /\ phase = "open"
    /\ ops = 0
    /\ last = NoCall
    /\ prover = NoProver
    /\ tampered = FALSE
    /\ verifier = NoVerifier

\* One field operation on the operands held; r is what it returns.
WordStep(name, r) ==
    /\ calc.op = "operands"
    /\ calc' = [calc EXCEPT !.op = name, !.overflow = r.overflow,
                         !.returned = r.value]
    /\ UNCHANGED <<channel, phase, ops, last, prover, tampered, verifier, polynomial>>

\* a + b
WordAdd == WordStep("add", AddWord(calc.modulus, calc.a, calc.b))

\* a - b
WordSub == WordStep("sub", SubWord(calc.modulus, calc.a, calc.b))

\* a * b
WordMul == WordStep("mul", MulWord(calc.modulus, calc.a, calc.b))

\* a.pow(exp)
WordPow == WordStep("pow", PowWord(calc.modulus, calc.a, calc.exp))

WordNext == WordAdd \/ WordSub \/ WordMul \/ WordPow

SpecWord == InitWord /\ [][WordNext]_vars

\* ------------------------------------- the parallel Lagrange basis

\* A slot of the collected vector that no task has filled yet.
NoResult == [panicked |-> FALSE, li |-> PolynomialZero, filled |-> FALSE]

\* The vector collect() builds from an indexed parallel iterator, which
\* came back as it would if results were pushed as the tasks complete.
Collect_InCompletionOrder(slots, order) ==
    Vec([k \in 1..Len(order) |-> slots[order[k]]])

\* .collect() of the indexed parallel iterator (0..n).into_par_iter().map:
\* the result of task i is element i, whatever the order of completion.
Collect(slots, order) ==
    Vec([i \in 1..Len(slots) |-> [panicked |-> slots[i].panicked, li |-> slots[i].li]])

\* gen_lagrange_polynomials_parallel(roots) is called: Z is computed once,
\* before the tasks; without roots it returns at once.
ParCall(roots) ==
    /\ phase = "open"
    /\ calc.op = "none"
    /\ calc' = IF roots = <<>>
               THEN [NoCalc EXCEPT !.op = "par_collected", !.xs = roots]
               ELSE [NoCalc EXCEPT !.op = "par_running", !.xs = roots,
                        !.self = GenPolynomialFromRoots(roots),
                        !.slots = Vec([i \in 1..Len(roots) |-> NoResult])]
    /\ UNCHANGED <<channel, phase, ops, last, prover, tampered, verifier, polynomial>>

\* The task of index i completes: it read roots and Z, which no task
\* writes, and its result is its own.
ParTask(i) ==
    /\ calc.op = "par_running"
    /\ i \in 1..Len(calc.xs)
    /\ ~calc.slots[i].filled
    /\ LET r == LagrangeBasis(calc.xs, calc.self, i)
       IN  calc' = [calc EXCEPT
                      !.slots[i] = [panicked |-> r.panicked, li |-> r.li,
                                    filled |-> TRUE],
                      !.order = Append(@, i)]
    /\ UNCHANGED <<channel, phase, ops, last, prover, tampered, verifier, polynomial>>

\* All tasks are done and the call returns the collected vector.
ParCollect ==
    /\ calc.op = "par_running"
    /\ Len(calc.order) = Len(calc.xs)
    /\ calc' = [calc EXCEPT !.op = "par_collected",
                            !.basis = Collect(calc.slots, calc.order)]
    /\ UNCHANGED <<channel, phase, ops, last, prover, tampered, verifier, polynomial>>

ParNext ==
    \/ \E roots \in PointChoices : ParCall(roots)
    \/ \E i \in 1..MaxCoeffs : ParTask(i)
    \/ ParCollect

SpecPar == Init /\ [][ParNext]_vars

\* ------------------------------------------------- claims: the channel

\* C7 (as claimed): receive_random_int(min, max, record) with min <= max
\* returns r with min <= r <= max.
C7_ReturnWithinMinMax ==
    last.op = "receive_random_int" =>
        (last.min <= last.ret /\ last.ret <= last.max)

\* C8: send(message) sets state to Hash(old state ++ hex(message)) and
\* appends the message as the new last entry of proof and of
\* compressed_proof, every earlier entry of both logs staying as it was.
C8_SendEffect ==
    last.op = "send" =>
        /\ channel.state = Sha256Digest(last.pre.state \o HexEncode(last.message))
        /\ Len(channel.proof) = Len(last.pre.proof) + 1
        /\ channel.proof[Len(channel.proof)] = last.message
        /\ SubSeq(channel.proof, 1, Len(last.pre.proof)) = last.pre.proof
        /\ Len(channel.compressed_proof) = Len(last.pre.compressed_proof) + 1
        /\ channel.compressed_proof[Len(channel.compressed_proof)] = last.message
        /\ SubSeq(channel.compressed_proof, 1, Len(last.pre.compressed_proof))
               = last.pre.compressed_proof

\* C8's case: a non-empty message sent on a channel that already holds entries.
C8_Witness ==
    /\ last.op = "send"
    /\ last.message # <<>>
    /\ last.pre.proof # <<>>
    /\ last.pre.state # <<>>

\* C9: receive_random_field_element returns v in [0, M), sets state to
\* Hash(old state) and appends to proof exactly one entry, whose
\* big-endian reading is v.
C9_FieldElementRecorded ==
    last.op = "receive_random_field_element" =>
        /\ last.ret \in 0..(Modulus - 1)
        /\ channel.state = Sha256Digest(last.pre.state)
        /\ Len(channel.proof) = Len(last.pre.proof) + 1
        /\ SubSeq(channel.proof, 1, Len(last.pre.proof)) = last.pre.proof
        /\ DecodeBe(channel.proof[Len(channel.proof)]) = last.ret

\* C9's case: a non-zero element drawn from a state that a hash produced.
C9_Witness ==
    /\ last.op = "receive_random_field_element"
    /\ last.ret > 0
    /\ last.pre.state # <<>>

\* C10: receive_random_int leaves both logs alone when record is false;
\* when record is true it appends to proof one entry, the encoding of the
\* value returned, and leaves compressed_proof alone; either way the state
\* becomes Hash(old state).
C10_RecordFlagFrame ==
    last.op = "receive_random_int" =>
        /\ channel.state = Sha256Digest(last.pre.state)
        /\ channel.compressed_proof = last.pre.compressed_proof
        /\ ~last.show_in_proof => channel.proof = last.pre.proof
        /\ last.show_in_proof =>
              /\ Len(channel.proof) = Len(last.pre.proof) + 1
              /\ SubSeq(channel.proof, 1, Len(last.pre.proof)) = last.pre.proof
              /\ channel.proof[Len(channel.proof)] = ToBeBytes(last.ret)
              /\ DecodeBe(channel.proof[Len(channel.proof)]) = last.ret

\* C10's case: a recorded draw of a non-zero value on a channel whose
\* logs already hold a sent message.
C10_Witness ==
    /\ last.op = "receive_random_int"
    /\ last.show_in_proof
    /\ last.ret > 0
    /\ last.pre.compressed_proof # <<>>

\* C10's other case: an unrecorded draw on such a channel.
C10_WitnessUnrecorded ==
    /\ last.op = "receive_random_int"
    /\ ~last.show_in_proof
    /\ last.pre.proof # <<>>

\* ------------------------------------------------- claims: the FRI run

\* fri_commit has returned (decommit_fri and verify_fri may have run since).
Committed == phase \in {"committed", "decommitted", "verified"}

\* The fold rounds fri_commit performed: one beta is drawn per round.
Rounds == Len(prover.betas)

\* The lengths of the committed evaluation layers, in order.
LayerLengths == Vec([k \in 1..Len(prover.fri_layers) |-> Len(prover.fri_layers[k])])

\* The entries fri_commit sent (compressed_proof holds exactly the sends).
CommitSends ==
    SubSeq(prover.committed.compressed_proof,
           Len(prover.pre.compressed_proof) + 1,
           Len(prover.committed.compressed_proof))

\* The roots fri_commit sent: all its sends but the last, the final constant.
RootsSent == Front(CommitSends)

\* verify_fri ran with the prover's num_queries and max_index and with
\* expected_num_layers equal to the number of layers committed.
Matching ==
    /\ phase = "verified"
    /\ verifier.num_queries = prover.num_queries
    /\ verifier.max_index = prover.max_index
    /\ verifier.expected_num_layers = Len(prover.fri_layers)

\* C2 (as claimed): verify_fri on the transcript of an honest fri_commit and
\* decommit_fri, with the same num_queries and max_index and with
\* expected_num_layers the number of layers committed, returns true.
C2_HonestTranscriptAccepted ==
    (Matching /\ ~tampered) => verifier.result = TRUE

\* C3: once one byte of an evaluation recorded by decommit_fri_layers is
\* changed, verify_fri (run with the prover's parameters) returns false.
C3_TamperedEvaluationRejected ==
    (Matching /\ tampered) => verifier.result = FALSE

\* C3's case: verify_fri has run on a transcript with a changed evaluation.
C3_Witness ==
    /\ Matching
    /\ tampered
    /\ verifier.num_queries >= 1
    /\ verifier.result = FALSE

\* The end-to-end case of C5: modulus 7, a domain of 8 points and a
\* polynomial of degree 3, after fri_commit.
C5_Case ==
    /\ Committed
    /\ Modulus = 7
    /\ Len(prover.domain) = 8
    /\ prover.poly.degree = 3

\* C5 (as claimed): in that case fri_commit performs exactly 3 fold rounds
\* and commits layers of lengths 8, 4, 2 and 1, with 4 layers, 4 trees and
\* 4 roots sent.
C5_ThreeRoundsFourLayers ==
    C5_Case =>
        /\ Rounds = 3
        /\ LayerLengths = <<8, 4, 2, 1>>
        /\ Len(prover.fri_layers) = 4
        /\ Len(prover.fri_merkles) = 4
        /\ Len(RootsSent) = 4

\* C5 (amended): in that case fri_commit performs 1 or 2 fold rounds, never
\* 3; the layers have lengths 8, 4 and (after a second round) 2, no layer of
\* length 1 is committed, and fri_layers, fri_merkles and the roots sent
\* each number rounds + 1, every root sent being the root of its layer's tree.
C5_AtMostTwoRounds ==
    C5_Case =>
        /\ Rounds \in {1, 2}
        /\ LayerLengths = SubSeq(<<8, 4, 2>>, 1, Rounds + 1)
        /\ Len(prover.fri_layers) = Rounds + 1
        /\ Len(prover.fri_merkles) = Rounds + 1
        /\ Len(RootsSent) = Rounds + 1
        /\ \A k \in 1..Len(RootsSent) :
              RootsSent[k] = MerkleRoot(MerkleTreeNew(prover.fri_layers[k]))

\* C5's case, with the two rounds a degree-3 polynomial usually takes.
C5_Witness == C5_Case /\ Rounds = 2 /\ LayerLengths = <<8, 4, 2>>

\* C5's other case: the first fold cancels the leading coefficient.
C5_WitnessOneRound == C5_Case /\ Rounds = 1

\* C6 (as claimed): the betas verify_fri derives are the betas fri_commit
\* drew, layer by layer, and every index verify_fri derives is the index
\* decommit_fri drew for that query.
C6_VerifierDerivesProverChallenges ==
    Matching =>
        /\ verifier.betas = prover.betas
        /\ \A q \in 1..Len(verifier.idxs) :
              q <= Len(prover.idxs) /\ verifier.idxs[q] = prover.idxs[q]

\* ------------------------------------- claims: openings and the fold

\* The transcript verify_fri was handed.
Transcript == verifier.pre.proof

RECURSIVE OpenedLayers(_)
\* The layers decommit_fri_layers opens: those before the first layer of
\* length 1, where its loop breaks.
OpenedLayers(layers) ==
    IF layers = <<>> \/ Len(layers[1]) = 1 THEN 0
    ELSE 1 + OpenedLayers(Tail(layers))

RECURSIVE DomainAt(_, _)
\* The domain of layer k: next_fri_domain applied k - 1 times.
DomainAt(domain, k) ==
    IF k = 1 THEN domain ELSE DomainAt(NextFriDomain(domain), k - 1)

\* Where in the transcript query q's opening of layer k lies: side 1 is
\* the element, side 2 its sibling; the path follows each value.
OpeningPos(q, k, side) ==
    prover.sent[(q - 1) * 2 * OpenedLayers(prover.fri_layers) + 2 * (k - 1) + side]

\* The index decommit_fri_layers opened in layer k for query q.
OpenedIndex(q, k, side) ==
    LET length == Len(prover.fri_layers[k])
        idx    == prover.idxs[q] % length
    IN  IF side = 1 THEN idx ELSE (idx + length \div 2) % length

\* The opening is valid: the recorded value and path lead to the root
\* sent for the layer.
OpeningValid(q, k, side) ==
    Validate(RootsSent[k], Transcript[OpeningPos(q, k, side) + 1],
             OpenedIndex(q, k, side), Transcript[OpeningPos(q, k, side)],
             Len(prover.fri_layers[k]))

\* Every opening of every query is valid.
OpeningsValid ==
    \A q \in 1..prover.num_queries :
        \A k \in 1..OpenedLayers(prover.fri_layers) :
            OpeningValid(q, k, 1) /\ OpeningValid(q, k, 2)

\* The fold of the two values opened in a layer, with challenge beta and
\* the domain point x: (v_i + v_s)/2 + beta * (v_i - v_s)/(2x).
Fold(v_i, v_s, beta, x) ==
    FieldAdd(FieldDiv(FieldAdd(v_i, v_s), FieldNew(2)),
             FieldMul(beta, FieldDiv(FieldSub(v_i, v_s),
                                     FieldMul(FieldNew(2), x))))

\* The value recorded for query q in layer k.
OpenedValue(q, k, side) == FieldFromBytes(Transcript[OpeningPos(q, k, side)])

\* The fold identity between the openings of layers k and k + 1 of query q.
FoldHolds(q, k) ==
    OpenedValue(q, k + 1, 1) =
        Fold(OpenedValue(q, k, 1), OpenedValue(q, k, 2), prover.betas[k],
             DomainAt(prover.domain, k)[OpenedIndex(q, k, 1) + 1])

\* The fold identity holds at every opened layer that has an opened
\* successor, for every query.
FoldConsistent ==
    \A q \in 1..prover.num_queries :
        \A k \in 1..(OpenedLayers(prover.fri_layers) - 1) : FoldHolds(q, k)

\* C4's case: verify_fri has run, with at least one query, on a transcript
\* whose openings are all valid and whose fold identity fails somewhere.
C4_Case ==
    /\ phase = "verified"
    /\ verifier.num_queries >= 1
    /\ prover.num_queries >= 1
    /\ OpeningsValid
    /\ ~FoldConsistent

Trimmed(p) ==
    /\ Len(p.coefficients) = p.degree + 1
    /\ p.coefficients # <<>> => p.coefficients[Len(p.coefficients)] # 0

\* C11 (as claimed): after any sequence of constructors and operations the
\* polynomial is trimmed: coefficients.len() == degree + 1, the last
\* coefficient is nonzero, the zero polynomial is empty with degree -1.
C11_AlwaysTrimmed == Trimmed(polynomial)

\* ------------------------------------------------- claims: the field

\* C12 (as claimed): inverse() of the zero element signals an error and
\* returns no value, and so does a / b with b = 0.
C12_InverseOfZeroFails ==
    (calc.op = "field" /\ (calc.a = 0 \/ calc.b = 0)) => calc.panicked

\* C13: over the prime modulus, for all elements a and b: (a + b) - b = a;
\* (a * b) / b = a when b # 0; a.inverse() * a = one() when a # 0.
C13_FieldIdentities ==
    calc.op = "field" =>
        /\ calc.values[1] = calc.a
        /\ calc.b # 0 => calc.values[2] = calc.a
        /\ calc.a # 0 => calc.values[5] = 1

\* C13's case: nonzero a and b whose sum and product wrap around the modulus.
C13_Witness ==
    /\ calc.op = "field"
    /\ calc.a # 0 /\ calc.b # 0
    /\ calc.a + calc.b >= Modulus
    /\ calc.values[4] # calc.a

\* C14: for every dividend and every nonzero divisor, div_rem returns
\* (q, r) with dividend = divisor * q + r as polynomials (equal
\* coefficient sequences once trailing zeros are dropped), and
\* degree(r) < degree(divisor) whenever r is not the zero polynomial.
C14_DivRemIdentity ==
    (calc.op = "div_rem" /\ Trim(calc.rhs.coefficients) # <<>>) =>
        /\ ~calc.panicked
        /\ ~calc.hangs
        /\ Trim(PolyAddAssign(PolyMulAssign(calc.rhs, calc.quotient),
                              calc.remainder).coefficients)
               = Trim(calc.self.coefficients)
        /\ (~IsZero(calc.remainder) => calc.remainder.degree < calc.rhs.degree)

\* C14 witness: a division by a divisor of degree 1 that went through the
\* loop and left a quotient of degree >= 1 and a nonzero remainder.
C14_Witness ==
    /\ calc.op = "div_rem"
    /\ ~calc.panicked /\ ~calc.hangs
    /\ calc.rhs.degree = 1
    /\ calc.quotient.degree >= 1
    /\ calc.remainder.degree = 0
    /\ C14_DivRemIdentity

\* C14 witness: a dividend of lower degree than the divisor is returned
\* as the remainder with a zero quotient.
C14_WitnessShortDividend ==
    /\ calc.op = "div_rem"
    /\ calc.self.degree >= 0
    /\ calc.self.degree < calc.rhs.degree
    /\ IsZero(calc.quotient)
    /\ calc.remainder = calc.self
    /\ Trim(calc.self.coefficients) # <<>>

\* C15 (as stated): one fold step on a polynomial of degree d >= 0 returns
\* a polynomial of degree floor(d / 2), for every challenge beta.
C15_FoldDegreeIsHalf ==
    (calc.op = "fold" /\ calc.self.degree >= 0) =>
        polynomial.degree = calc.self.degree \div 2

\* The coefficient of x^(d div 2) of the fold of a polynomial of degree d:
\* the leading coefficient for even d, c[d-1] + beta * c[d] for odd d.
FoldLeading(p, beta) ==
    LET d == p.degree
    IN  IF d % 2 = 0 THEN p.coefficients[d + 1]
        ELSE FieldAdd(p.coefficients[d], FieldMul(beta, p.coefficients[d + 1]))

\* C15 (amended): one fold step on a polynomial of degree d >= 0 returns a
\* polynomial of degree at most floor(d / 2); the degree is exactly
\* floor(d / 2) when the input is trimmed and the folded leading
\* coefficient (c[d] for even d, c[d-1] + beta * c[d] for odd d) is not
\* zero, and lower when that coefficient is zero.
C15_FoldDegreeAtMostHalf ==
    (calc.op = "fold" /\ calc.self.degree >= 0) =>
        /\ polynomial.degree <= calc.self.degree \div 2
        /\ (Trimmed(calc.self) /\ FoldLeading(calc.self, calc.scalar) # 0)
               => polynomial.degree = calc.self.degree \div 2
        /\ (Trimmed(calc.self) /\ FoldLeading(calc.self, calc.scalar) = 0)
               => Len(Trim(polynomial.coefficients)) - 1 < calc.self.degree \div 2

\* C15 witness: a fold of a trimmed polynomial of odd degree 3 whose folded
\* leading coefficient cancels, so the result has degree below 1.
C15_Witness ==
    /\ calc.op = "fold"
    /\ Trimmed(calc.self)
    /\ calc.self.degree = 3
    /\ calc.scalar # 0
    /\ FoldLeading(calc.self, calc.scalar) = 0
    /\ polynomial.degree < 1

\* C15 witness: a fold of a trimmed polynomial of degree 3 that halves the
\* degree exactly.
C15_WitnessHalved ==
    /\ calc.op = "fold"
    /\ Trimmed(calc.self)
    /\ calc.self.degree = 3
    /\ polynomial.degree = 1
    /\ Trimmed(polynomial)

\* The points of xs are pairwise distinct.
Distinct(xs) == \A i, j \in 1..Len(xs) : i # j => xs[i] # xs[j]

\* C16: for pairwise distinct points xs, gen_lagrange_polynomials(xs)
\* returns len(xs) polynomials with L_i(x_j) = 1 when i = j and 0 when
\* i # j.
C16_LagrangeBasisIsDelta ==
    (calc.op = "gen_lagrange_polynomials" /\ Distinct(calc.xs)) =>
        /\ ~calc.panicked
        /\ Len(calc.basis) = Len(calc.xs)
        /\ \A i, j \in 1..Len(calc.xs) :
               Evaluate(calc.basis[i].li, calc.xs[j]) = IF i = j THEN 1 ELSE 0

\* C16 witness: the basis of three distinct points, one of whose
\* denominators is not 1, so that the scaling matters.
C16_Witness ==
    /\ calc.op = "gen_lagrange_polynomials"
    /\ Distinct(calc.xs)
    /\ Len(calc.xs) = 3
    /\ Len(calc.basis) = 3
    /\ \E i \in 1..3 : Denom(calc.xs, i, 3) # 1
    /\ \A i \in 1..3 : calc.basis[i].li.degree = 2

\* C17: for pairwise distinct xs and a polynomial p with degree(p) <
\* len(xs), interpolate_lagrange_polynomials(xs, [p(x) for x in xs]) is p:
\* the result is trimmed and has p's coefficient sequence (p's trailing
\* zeros dropped), so it equals a trimmed p in degree and coefficients,
\* whether or not some p(x) are zero.
C17_InterpolationRoundTrip ==
    (calc.op = "interpolate" /\ Distinct(calc.xs)
                             /\ calc.self.degree < Len(calc.xs)) =>
        /\ ~calc.panicked
        /\ Trimmed(calc.out)
        /\ calc.out.coefficients = Trim(calc.self.coefficients)
        /\ Trimmed(calc.self) =>
               (PolyEq(calc.out, calc.self) /\ calc.out = calc.self)

\* C17 witness: a trimmed polynomial of degree 2 interpolated from three
\* distinct points, one of them a root (its value is zero) and one not.
C17_Witness ==
    /\ calc.op = "interpolate"
    /\ Distinct(calc.xs)
    /\ Len(calc.xs) = 3
    /\ Trimmed(calc.self)
    /\ calc.self.degree = 2
    /\ \E i \in 1..3 : calc.ys[i] = 0
    /\ calc.ys[1] # 0
    /\ calc.out = calc.self

\* C18: for a tree built from a sequence of field elements and a valid
\* index, validate(root(), get_authentication_path(index), index, value
\* at index, size) is true, and it is false after one byte of the path
\* or of the value is changed; validate takes the root, the path, the
\* index, the value and the size and no tree.
C18_ValidateAcceptsExactlyTheOpening ==
    calc.op = "validate" =>
        /\ calc.target = "none" => calc.accepted
        /\ calc.target # "none" => ~calc.accepted
        /\ calc.accepted = Validate(calc.root, calc.sent_path, calc.index,
                                    calc.sent_value, Len(calc.data))

\* C18 witness: the untouched opening of a leaf two levels below the root
\* is accepted.
C18_Witness ==
    /\ calc.op = "validate"
    /\ calc.target = "none"
    /\ Len(calc.data) = 4
    /\ Len(calc.path) = 2 * DigestBytes
    /\ calc.accepted

\* C18 witness: an opening with one byte of its path changed is rejected.
C18_WitnessPath ==
    /\ calc.op = "validate"
    /\ calc.target = "path"
    /\ Len(calc.sent_path) = Len(calc.path)
    /\ Cardinality({k \in 1..Len(calc.path) : calc.sent_path[k] # calc.path[k]}) = 1
    /\ calc.sent_value = calc.value
    /\ ~calc.accepted

\* C18 witness: an opening with one byte of its value changed is rejected.
C18_WitnessValue ==
    /\ calc.op = "validate"
    /\ calc.target = "value"
    /\ Cardinality({k \in 1..8 : calc.sent_value[k] # calc.value[k]}) = 1
    /\ calc.sent_path = calc.path
    /\ Len(calc.path) > 0
    /\ ~calc.accepted

\* C19: a failure in one query does not end verify_fri early: when
\* verify_fri returns on a transcript that is not empty, it has derived
\* the index of every one of the num_queries queries and checked its
\* layers.
C19_AllQueriesProcessed ==
    (phase = "verified" /\ verifier.pre.proof # <<>>) =>
        Len(verifier.idxs) = verifier.num_queries

\* The entries fri_commit appended to the proof log: its sends and the
\* challenges it drew, in the order they happened.
CommitLog ==
    SubSeq(prover.committed.proof, Len(prover.pre.proof) + 1,
           Len(prover.committed.proof))

\* The constant fri_commit sends last: zero for the zero polynomial,
\* otherwise the constant term of the final polynomial.
FinalConstant ==
    IF IsZero(prover.final_poly) THEN 0 ELSE prover.final_poly.coefficients[1]

\* C20: the transcript written by fri_commit is R_0, beta_0, R_1, beta_1,
\* ..., R_n, final constant: the root of layer k comes before beta_k,
\* beta_k before the root of layer k + 1, there is one root per committed
\* layer, and the last message is the constant term of the final
\* polynomial (zero if that polynomial is zero).
C20_CommitTranscriptOrder ==
    Committed =>
        /\ Len(prover.fri_layers) = Rounds + 1
        /\ Len(prover.fri_merkles) = Rounds + 1
        /\ Len(CommitLog) = 2 * Rounds + 2
        /\ \A k \in 0..Rounds :
               CommitLog[2 * k + 1] = MerkleRoot(prover.fri_merkles[k + 1])
        /\ \A k \in 1..Rounds :
               CommitLog[2 * k] = ToBeBytes(prover.betas[k])
        /\ CommitLog[2 * Rounds + 2] = FieldToBytes(FinalConstant)
        /\ Len(RootsSent) = Len(prover.fri_layers)
        /\ \A k \in 1..Len(RootsSent) :
               RootsSent[k] = MerkleRoot(MerkleTreeNew(prover.fri_layers[k]))
        /\ CommitSends[Len(CommitSends)] = FieldToBytes(FinalConstant)

\* C20 witness: a commit of two fold rounds after a preamble, with a
\* nonzero final constant: three roots, two challenges, the constant.
C20_Witness ==
    /\ phase = "committed"
    /\ prover.pre.proof # <<>>
    /\ Rounds = 2
    /\ Len(CommitLog) = 6
    /\ FinalConstant # 0
    /\ prover.final_poly.degree = 0

\* C20 witness: a commit whose final polynomial is zero after a fold
\* round sends the zero constant last.
C20_WitnessZeroFinal ==
    /\ phase = "committed"
    /\ Rounds >= 1
    /\ IsZero(prover.final_poly)
    /\ CommitLog[Len(CommitLog)] = FieldToBytes(0)

\* decommit_fri has returned.
Decommitted == phase \in {"decommitted", "verified"}

\* The messages decommit_fri sent, in order (compressed_proof holds
\* exactly the sends; the indices it drew are recorded in proof only).
DecommitSends ==
    SubSeq(channel.compressed_proof, Len(prover.committed.compressed_proof) + 1,
           Len(channel.compressed_proof))

\* The four messages of query q for layer k, as sent.
OpeningSent(q, k) ==
    LET base == 4 * ((q - 1) * OpenedLayers(prover.fri_layers) + (k - 1))
    IN  SubSeq(DecommitSends, base + 1, base + 4)

\* C21: for every query index, decommit_fri_layers sends for each layer k
\* of length L_k > 1, in layer order, exactly four messages: E_k[i], the
\* path of i, E_k[s], the path of s, with i = idx mod L_k and
\* s = (i + L_k / 2) mod L_k; it sends nothing for a layer of length 1,
\* and i and s are valid indices of layer k.
C21_FourMessagesPerOpenedLayer ==
    Decommitted =>
        LET n == OpenedLayers(prover.fri_layers)
        IN  /\ Len(prover.idxs) = prover.num_queries
            /\ Len(DecommitSends) = 4 * n * prover.num_queries
            /\ \A k \in 1..Len(prover.fri_layers) :
                   (Len(prover.fri_layers[k]) > 1) <=> (k <= n)
            /\ \A q \in 1..prover.num_queries : \A k \in 1..n :
                   LET E == prover.fri_layers[k]
                       L == Len(E)
                       i == prover.idxs[q] % L
                       si == (i + L \div 2) % L
                   IN  /\ i \in 0..(L - 1)
                       /\ si \in 0..(L - 1)
                       /\ OpeningSent(q, k) =
                              <<FieldToBytes(E[i + 1]),
                                GetAuthenticationPath(prover.fri_merkles[k], i),
                                FieldToBytes(E[si + 1]),
                                GetAuthenticationPath(prover.fri_merkles[k], si)>>

\* C21 witness: two queries over three committed layers of lengths 4, 2
\* and 1: eight messages per query, none for the last layer.
C21_Witness ==
    /\ phase = "decommitted"
    /\ prover.num_queries = 2
    /\ LayerLengths = <<4, 2, 1>>
    /\ OpenedLayers(prover.fri_layers) = 2
    /\ Len(DecommitSends) = 16
    /\ prover.idxs[1] >= 4

\* C22: for a domain of even length n, both next_fri_domain and
\* CosetFri::next_coset_domain return a sequence of length n / 2 whose
\* j-th element is the square of the j-th element of the input.
C22_NextDomainHalves ==
    (calc.op = "next_domain" /\ Len(calc.domain) % 2 = 0) =>
        LET n == Len(calc.domain)
        IN  /\ Len(calc.next_fri_domain) = n \div 2
            /\ Len(calc.next_coset_domain) = n \div 2
            /\ \A j \in 1..(n \div 2) :
                   /\ calc.next_fri_domain[j] = FieldMul(calc.domain[j], calc.domain[j])
                   /\ calc.next_coset_domain[j] = FieldMul(calc.domain[j], calc.domain[j])

\* The part of C22 that is about next_fri_domain alone: half the length,
\* the squares of the first half.
C22_NextFriDomainHalves ==
    (calc.op = "next_domain" /\ Len(calc.domain) % 2 = 0) =>
        LET n == Len(calc.domain)
        IN  /\ Len(calc.next_fri_domain) = n \div 2
            /\ \A j \in 1..(n \div 2) :
                   calc.next_fri_domain[j] = FieldMul(calc.domain[j], calc.domain[j])

\* What next_coset_domain returns instead: a sequence of the length of
\* its input.
C22_NextCosetDomainKeepsLength ==
    calc.op = "next_domain" =>
        /\ Len(calc.next_coset_domain) = Len(calc.domain)
        /\ \A j \in 1..Len(calc.domain) :
               calc.next_coset_domain[j] = FieldMul(calc.domain[j], calc.domain[j])

\* fri_commit was called: it returned or it panicked.
CommitCalled == phase \in {"committed", "decommitted", "verified", "panicked"}

\* C23: for every input polynomial, every non-empty domain and every
\* sequence of challenges, the fold loop of fri_commit terminates, and
\* when it does the current polynomial has degree <= 0.
C23_FoldLoopEndsAtConstant ==
    (CommitCalled /\ prover.domain # <<>>) =>
        /\ phase # "panicked"
        /\ prover.final_poly.degree <= 0

\* What holds of C23: a fri_commit that returns leaves a polynomial of
\* degree <= 0, after at most as many rounds as the input's degree.
C23_ReturnedAtConstant ==
    Committed =>
        /\ prover.final_poly.degree <= 0
        /\ prover.poly.degree >= 1 => Rounds <= prover.poly.degree
        /\ prover.poly.degree <= 0 => Rounds = 0

\* The run that leaves the loop by a panic: the domain is used up (its
\* next layer is empty) while the polynomial still has degree >= 1.
C23_PanicOnlyOnExhaustedDomain ==
    phase = "panicked" =>
        /\ prover.final_poly.degree >= 1
        /\ Len(prover.fri_layers[Len(prover.fri_layers)]) <= 1

\* C24: the roots verify_fri checks openings against are the roots the
\* prover sent, fri_roots[k] being the k-th root fri_commit sent for every
\* k < expected_num_layers, and the final constant verify_fri reads is
\* the constant fri_commit sent.
C24_VerifierReadsProverRoots ==
    Matching =>
        /\ Len(verifier.fri_roots) = verifier.expected_num_layers
        /\ \A k \in 1..verifier.expected_num_layers :
               verifier.fri_roots[k] = RootsSent[k]
        /\ verifier.final_value = FinalConstant

\* What verify_fri reads instead: after the first entry of the transcript,
\* each "root" is the entry its own draw of beta has just appended, and
\* the final constant is the last entry of the log at that point.
C24_RootsAreTheVerifiersOwnBetas ==
    (Matching /\ verifier.pre.proof # <<>>) =>
        /\ verifier.fri_roots[1] = FromUtf8Lossy(verifier.pre.proof[1])
        /\ \A k \in 2..verifier.expected_num_layers :
               verifier.fri_roots[k] = FromUtf8Lossy(ToBeBytes(verifier.betas[k - 1]))
        /\ verifier.expected_num_layers >= 2 =>
               verifier.final_value =
                   FieldNew(verifier.betas[verifier.expected_num_layers - 1])

\* verify_fri ran with the prover's parameters on the untouched transcript
\* and processed at least one query of a run with an opened layer.
C25_Case ==
    /\ Matching
    /\ ~tampered
    /\ Len(verifier.idxs) >= 1
    /\ OpenedLayers(prover.fri_layers) >= 1

\* C25: for each query and layer, verify_fri_layers reads four distinct
\* entries in the order the prover sent them (the value at i, its path,
\* the value at s, its path), and the pairs it passes to the Merkle
\* validation are the pairs decommit_fri_layers sent for that layer.
\* Stated for the first layer of the last query verify_fri processed,
\* whose channel is the one verify_fri leaves.
C25_VerifierReadsProverOpenings ==
    C25_Case =>
        LET r == LayerReads(verifier.fri_roots, channel)[1]
        IN  <<r.pi_x_bytes, r.pi_x_proof, r.pi_negx_bytes, r.pi_negx_proof>>
                = OpeningSent(Len(verifier.idxs), 1)

\* What verify_fri_layers reads instead: all four reads of every layer
\* are one entry, the bytes of the index receive_random_int has just
\* recorded, and it loops over every committed layer's root, a last
\* layer of length 1 included.
C25_ReadsAreTheIndexJustRecorded ==
    C25_Case =>
        /\ \A k \in 1..Len(verifier.fri_roots) :
               LET r == LayerReads(verifier.fri_roots, channel)[k]
               IN  /\ r.pi_x_bytes = ToBeBytes(verifier.idxs[Len(verifier.idxs)])
                   /\ r.pi_x_proof = r.pi_x_bytes
                   /\ r.pi_negx_bytes = r.pi_x_bytes
                   /\ r.pi_negx_proof = r.pi_x_bytes
        /\ Len(verifier.fri_roots) = Len(prover.fri_layers)

\* C26: the verifier's index arithmetic is the prover's: for every query
\* index idx and layer k, the layer size verify_fri_layers uses is the
\* length L_k of the prover's layer k, the index it validates is
\* idx mod L_k and the sibling index is (idx mod L_k + L_k / 2) mod L_k.
C26_VerifierIndexArithmeticMatches ==
    Matching =>
        \A q \in 1..Len(verifier.idxs) : \A k \in 1..Len(verifier.fri_roots) :
            LET L   == Len(prover.fri_layers[k])
                idx == verifier.idxs[q]
            IN  /\ VerifierLayerSize(k - 1) = L
                /\ VerifierIndex(idx, k - 1) = idx % L
                /\ VerifierSiblingIndex(idx, k - 1) = ((idx % L) + (L \div 2)) % L

\* What the verifier uses instead: sizes 8192, 4096, ... whatever the
\* prover's layers are, and the undivided query index in every layer.
C26_VerifierUsesHardCodedSizes ==
    Matching =>
        \A q \in 1..Len(verifier.idxs) : \A k \in 1..Len(verifier.fri_roots) :
            /\ VerifierLayerSize(k - 1) > Len(prover.fri_layers[k])
            /\ VerifierIndex(verifier.idxs[q], k - 1) = verifier.idxs[q]
            /\ VerifierSiblingIndex(verifier.idxs[q], k - 1)
                   >= Len(prover.fri_layers[k])

\* C27: for every modulus M that fits the word and all a, b in [0, M) and
\* exponents e, add, sub, mul and pow return the exact result modulo M
\* and no intermediate value wraps around the word: add and sub agree
\* with (a + b) mod M and (a - b) mod M, pow with e-fold multiplication.
C27_ExactModularArithmetic ==
    /\ calc.op \in {"add", "sub", "mul", "pow"} => ~calc.overflow
    /\ calc.op = "add" => calc.returned = (calc.a + calc.b) % calc.modulus
    /\ calc.op = "sub" => calc.returned = (calc.a - calc.b + calc.modulus) % calc.modulus
    /\ calc.op = "mul" => calc.returned = (calc.a * calc.b) % calc.modulus
    /\ calc.op = "pow" => calc.returned = PowByMul(calc.modulus, calc.a, calc.exp)

\* What holds of C27: mul is exact for every modulus that fits the word;
\* add and sub are exact for a modulus of at most half the word's range,
\* pow for a modulus whose square of M - 1 fits the word.
C27_ExactWithinHalfWord ==
    /\ calc.op = "mul" =>
           ~calc.overflow /\ calc.returned = (calc.a * calc.b) % calc.modulus
    /\ (calc.op = "add" /\ 2 * calc.modulus <= Word) =>
           ~calc.overflow /\ calc.returned = (calc.a + calc.b) % calc.modulus
    /\ (calc.op = "sub" /\ 2 * calc.modulus <= Word) =>
           /\ ~calc.overflow
           /\ calc.returned = (calc.a - calc.b + calc.modulus) % calc.modulus
    /\ (calc.op = "pow" /\ (calc.modulus - 1) * (calc.modulus - 1) < Word) =>
           /\ ~calc.overflow
           /\ calc.returned = PowByMul(calc.modulus, calc.a, calc.exp)

\* A release build returns a wrong sum: the result differs from
\* (a + b) mod M.
C27_NoWrongSum ==
    calc.op = "add" => calc.returned = (calc.a + calc.b) % calc.modulus

\* A release build returns a wrong power.
C27_NoWrongPower ==
    calc.op = "pow" => calc.returned = PowByMul(calc.modulus, calc.a, calc.exp)

IsPrefix(s, t) == Len(s) <= Len(t) /\ SubSeq(t, 1, Len(s)) = s

RECURSIVE IsSubsequence(_, _)
\* s is t with some entries left out, the order kept.
IsSubsequence(s, t) ==
    IF s = <<>> THEN TRUE
    ELSE IF t = <<>> THEN FALSE
    ELSE IF Head(s) = Head(t) THEN IsSubsequence(Tail(s), Tail(t))
    ELSE IsSubsequence(s, Tail(t))

RECURSIVE Concat(_)
\* The entries of a log joined into one byte string.
Concat(log) == IF log = <<>> THEN <<>> ELSE Head(log) \o Concat(Tail(log))

\* The logs after a call, given the logs before it: a send appends its
\* message to both; a receive appends nothing to compressed_proof and at
\* most one entry to proof; nothing already logged is removed or changed.
LogsExtended ==
    /\ IsPrefix(channel.proof, channel'.proof)
    /\ IsPrefix(channel.compressed_proof, channel'.compressed_proof)
    /\ last'.op = "send" =>
           /\ channel'.proof = Append(channel.proof, last'.message)
           /\ channel'.compressed_proof =
                  Append(channel.compressed_proof, last'.message)
    /\ last'.op # "send" =>
           /\ channel'.compressed_proof = channel.compressed_proof
           /\ Len(channel'.proof) <= Len(channel.proof) + 1

\* C29: the channel logs are append-only and nested: no call removes or
\* changes an entry of proof or compressed_proof, compressed_proof is the
\* subsequence of proof made of the messages passed to send, in order
\* (each send appends its message to both logs and no other call touches
\* compressed_proof), and proof_size() and compressed_proof_size() are
\* the sums of the entry lengths of their logs.
C29_LogsAppendOnlyAndNested ==
    /\ [][LogsExtended]_vars
    /\ [](/\ IsSubsequence(channel.compressed_proof, channel.proof)
          /\ ProofSize(channel) = Len(Concat(channel.proof))
          /\ CompressedProofSize(channel) = Len(Concat(channel.compressed_proof)))

\* C29 witness: a channel after a send, a recorded draw and another send:
\* three entries in proof, the two sent messages in compressed_proof, of
\* different sizes.
C29_Witness ==
    /\ Len(channel.proof) = 3
    /\ Len(channel.compressed_proof) = 2
    /\ channel.compressed_proof = <<channel.proof[1], channel.proof[3]>>
    /\ channel.proof[2] # <<>>
    /\ last.op = "send"
    /\ CompressedProofSize(channel) < ProofSize(channel)
    /\ CompressedProofSize(channel) > 0

\* C30: verify_fri is read-only on the transcript: the proof and
\* compressed_proof logs after verify_fri returns are the logs before the
\* call.
C30_VerifyLeavesLogsUnchanged ==
    phase = "verified" =>
        /\ channel.proof = verifier.pre.proof
        /\ channel.compressed_proof = verifier.pre.compressed_proof

\* What verify_fri does to the logs: compressed_proof is left alone; proof
\* keeps the transcript as a prefix and gains one entry per beta and per
\* query index the verifier drew.
C30_VerifyAppendsItsDraws ==
    phase = "verified" =>
        /\ channel.compressed_proof = verifier.pre.compressed_proof
        /\ IsPrefix(verifier.pre.proof, channel.proof)
        /\ Len(channel.proof) =
               Len(verifier.pre.proof) + Len(verifier.betas) + Len(verifier.idxs)
        /\ \A k \in 1..Len(verifier.betas) :
               channel.proof[Len(verifier.pre.proof) + k] = ToBeBytes(verifier.betas[k])
        /\ \A q \in 1..Len(verifier.idxs) :
               channel.proof[Len(verifier.pre.proof) + Len(verifier.betas) + q]
                   = ToBeBytes(verifier.idxs[q])

====
